---- MODULE Spec2Model ----
(***************************************************************************)
(* A model of go-vdf: the rune-level VDF decoder (decode.go), the          *)
(* canonical encoder (encode.go), Marshal's pooled scratch buffer          *)
(* (encode.go, internal/pool.go) and the binding of a Node to a struct     *)
(* (decode.go: mapNodeToStruct, setScalarValue).                           *)
(*                                                                         *)
(* Text is a sequence of bytes (integers 0..255); a Go string is the same  *)
(* sequence.  Nodes live in a heap (a sequence of records) and a *Node is  *)
(* an index into it, so that the decoder's stack of open maps and its      *)
(* in-place updates of Children are what they are in the code.             *)
(***************************************************************************)
EXTENDS Integers, Sequences, FiniteSets, TLC

----------------------------------------------------------------------------
(* Bytes and runes the code names.                                         *)

TAB == 9
LF == 10
CR == 13
SP == 32
QUOTE == 34
SLASH == 47
UpperA == 65
UpperZ == 90
BSLASH == 92
LowerA == 97
LowerB == 98
LBRACE == 123
RBRACE == 125
BadByte == 255
BOM == 65279
ReplacementChar == 65533
RuneSelf == 128
COMMA == 44
PLUS == 43
MINUS == 45
Digit0 == 48
Digit9 == 57
PeekLen == 20
IndentWidth == 4

NodeTypeMap == 0
NodeTypeScalar == 1

----------------------------------------------------------------------------
(* Bounds of the model.                                                    *)

\* Longest free tail of bytes appended to a context prefix.
MaxTail == 3
\* Deepest nesting of Map nodes in a tree handed to Marshal.
MaxDepth == 2
\* Number of concurrent Marshal calls.
MaxCalls == 2
\* Longest free tail of the inputs of the fair specification.
MaxFairTail == 2

----------------------------------------------------------------------------
(* Strings.                                                                *)

RECURSIVE SeqsUpTo(_, _)
SeqsUpTo(S, n) ==
    IF n = 0 THEN {<<>>}
    ELSE LET prev == SeqsUpTo(S, n - 1)
         IN  prev \cup {Append(s, x) : s \in {t \in prev : Len(t) = n - 1}, x \in S}

Front(s) == SubSeq(s, 1, Len(s) - 1)
Drop(s, n) == SubSeq(s, n + 1, Len(s))

\* unicode.IsSpace
IsSpace(r) ==
    \/ r \in 9..13
    \/ r \in {32, 133, 160, 5760, 8232, 8233, 8239, 8287, 12288}
    \/ r \in 8192..8202

IsCont(b) == b \in 128..191

\* utf8.DecodeRune on the bytes of s from index p (1-based); the caller
\* guarantees p <= Len(s).
DecodeRune(s, p) ==
    LET n  == Len(s) - p + 1
        b0 == s[p]
        bad == [r |-> ReplacementChar, size |-> 1]
    IN  IF b0 < RuneSelf THEN [r |-> b0, size |-> 1]
        ELSE IF b0 \in 194..223 THEN
            IF n >= 2 /\ IsCont(s[p + 1])
            THEN [r |-> (b0 - 192) * 64 + (s[p + 1] - 128), size |-> 2]
            ELSE bad
        ELSE IF b0 \in 224..239 THEN
            IF /\ n >= 3
               /\ s[p + 1] \in (IF b0 = 224 THEN 160 ELSE 128)..(IF b0 = 237 THEN 159 ELSE 191)
               /\ IsCont(s[p + 2])
            THEN [r |-> (b0 - 224) * 4096 + (s[p + 1] - 128) * 64 + (s[p + 2] - 128),
                  size |-> 3]
            ELSE bad
        ELSE IF b0 \in 240..244 THEN
            IF /\ n >= 4
               /\ s[p + 1] \in (IF b0 = 240 THEN 144 ELSE 128)..(IF b0 = 244 THEN 143 ELSE 191)
               /\ IsCont(s[p + 2])
               /\ IsCont(s[p + 3])
            THEN [r |-> (b0 - 240) * 262144 + (s[p + 1] - 128) * 4096
                          + (s[p + 2] - 128) * 64 + (s[p + 3] - 128),
                  size |-> 4]
            ELSE bad
        ELSE bad

\* bufio.Reader.ReadRune at offset p: the rune, its size in bytes, or EOF.
ReadRune(s, p) ==
    IF p > Len(s) THEN [r |-> 0, size |-> 0, eof |-> TRUE]
    ELSE LET d == DecodeRune(s, p) IN [r |-> d.r, size |-> d.size, eof |-> FALSE]

\* strings.Builder.WriteRune: the UTF-8 encoding of r.
WriteRune(r) ==
    IF r < 128 THEN <<r>>
    ELSE IF r < 2048 THEN <<192 + (r \div 64), 128 + (r % 64)>>
    ELSE IF r < 65536 THEN <<224 + (r \div 4096), 128 + ((r \div 64) % 64), 128 + (r % 64)>>
    ELSE <<240 + (r \div 262144), 128 + ((r \div 4096) % 64),
           128 + ((r \div 64) % 64), 128 + (r % 64)>>

\* utf8.DecodeLastRune on a non-empty s.
DecodeLastRune(s) ==
    LET end == Len(s)
        lim == IF end - 4 < 0 THEN 1 ELSE end - 3
        starts == {i \in lim..(end - 1) : ~IsCont(s[i])}
        start == IF starts = {} THEN lim
                 ELSE CHOOSE i \in starts : \A j \in starts : j <= i
        d == DecodeRune(SubSeq(s, 1, end), start)
    IN  IF s[end] < RuneSelf THEN [r |-> s[end], size |-> 1]
        ELSE IF start + d.size - 1 # end THEN [r |-> ReplacementChar, size |-> 1]
        ELSE d

RECURSIVE TrimLeftSpace(_)
TrimLeftSpace(s) ==
    IF s = <<>> THEN s
    ELSE LET d == DecodeRune(s, 1)
         IN  IF IsSpace(d.r) THEN TrimLeftSpace(Drop(s, d.size)) ELSE s

RECURSIVE TrimRightSpace(_)
TrimRightSpace(s) ==
    IF s = <<>> THEN s
    ELSE LET d == DecodeLastRune(s)
         IN  IF IsSpace(d.r) THEN TrimRightSpace(SubSeq(s, 1, Len(s) - d.size)) ELSE s

\* strings.TrimSpace
TrimSpace(s) == TrimRightSpace(TrimLeftSpace(s))

\* strings.TrimRight(s, "\n\r")
RECURSIVE TrimRightNewlines(_)
TrimRightNewlines(s) ==
    IF s # <<>> /\ s[Len(s)] \in {LF, CR} THEN TrimRightNewlines(Front(s)) ELSE s

\* strings.ToLower on ASCII letters.
ToLower(s) ==
    [i \in 1..Len(s) |->
        IF s[i] \in UpperA..UpperZ THEN s[i] + (LowerA - UpperA) ELSE s[i]]

\* A count that sees no occurrence.
CountNone(s, b) == 0

\* strings.Count(s, "\"")
CountByte(s, b) == Cardinality({i \in 1..Len(s) : s[i] = b})

\* bufio.Reader.ReadString('\n') at offset p: the bytes up to and including
\* the first newline, or everything left when there is none.
ReadString(s, p) ==
    LET nl == {i \in p..Len(s) : s[i] = LF}
        stop == IF nl = {} THEN Len(s) ELSE CHOOSE i \in nl : \A j \in nl : i <= j
    IN  SubSeq(s, p, stop)

\* strings.Index(s, "//"), 0-based, -1 when absent.
IndexSlashSlash(s) ==
    LET at == {i \in 1..(Len(s) - 1) : s[i] = SLASH /\ s[i + 1] = SLASH}
    IN  IF at = {} THEN -1 ELSE (CHOOSE i \in at : \A j \in at : i <= j) - 1

----------------------------------------------------------------------------
(* Nodes.                                                                  *)

EmptyMap == [k \in {} |-> 0]

MapPut(m, k, v) == [x \in (DOMAIN m) \cup {k} |-> IF x = k THEN v ELSE m[x]]

NewNode(type, value, head, lineComment, ln, col) ==
    [Type |-> type, Value |-> value, Children |-> EmptyMap,
     HeadComment |-> head, LineComment |-> lineComment, Line |-> ln, Column |-> col]

\* The tree a *Node points to: Children hold nodes instead of pointers.
RECURSIVE TreeOf(_, _)
TreeOf(h, id) ==
    [Type |-> h[id].Type, Value |-> h[id].Value,
     Children |-> [k \in DOMAIN h[id].Children |-> TreeOf(h, h[id].Children[k])],
     HeadComment |-> h[id].HeadComment, LineComment |-> h[id].LineComment,
     Line |-> h[id].Line, Column |-> h[id].Column]

ZeroNode == NewNode(NodeTypeMap, <<>>, <<>>, <<>>, 0, 0)

----------------------------------------------------------------------------
(* Errors.                                                                 *)

NoErr == [Kind |-> "nil", Message |-> "", Line |-> 0, Column |-> 0,
          Expected |-> "", Found |-> <<>>]
ErrEOF == [Kind |-> "EOF", Message |-> "EOF", Line |-> 0, Column |-> 0,
           Expected |-> "", Found |-> <<>>]
newPositionError(ln, col, msg) ==
    [Kind |-> "PositionError", Message |-> msg, Line |-> ln, Column |-> col,
     Expected |-> "", Found |-> <<>>]
newParseError(ln, col, msg) ==
    [Kind |-> "ParseError", Message |-> msg, Line |-> ln, Column |-> col,
     Expected |-> "", Found |-> <<>>]
newParseErrorWithExpected(ln, col, msg, expected, found) ==
    [Kind |-> "ParseError", Message |-> msg, Line |-> ln, Column |-> col,
     Expected |-> expected, Found |-> found]

----------------------------------------------------------------------------
(* Encoder (encode.go).                                                    *)

NilType == 255

\* A NodeType that is neither NodeTypeMap nor NodeTypeScalar.
UnknownType == 99

\* A nil *Node, as a Map's child or as Encode's argument.
NilNode == NewNode(NilType, <<>>, <<>>, <<>>, 0, 0)

NilInterface == 254

\* The nil interface value, as Encode's argument.
NilValue == NewNode(NilInterface, <<>>, <<>>, <<>>, 0, 0)

ErrNilValue == [Kind |-> "ErrNilValue", Message |-> "cannot encode nil value",
                Line |-> 0, Column |-> 0, Expected |-> "", Found |-> <<>>]
ErrNilNode == [Kind |-> "ErrNilNode", Message |-> "cannot encode nil node",
               Line |-> 0, Column |-> 0, Expected |-> "", Found |-> <<>>]
newValidationError(msg) ==
    [Kind |-> "ValidationError", Message |-> msg, Line |-> 0, Column |-> 0,
     Expected |-> "", Found |-> <<>>]

RECURSIVE SetToSeq(_)
SetToSeq(S) ==
    IF S = {} THEN <<>>
    ELSE LET x == CHOOSE y \in S : TRUE IN <<x>> \o SetToSeq(S \ {x})

RECURSIVE Factorial(_)
Factorial(n) == IF n <= 1 THEN 1 ELSE n * Factorial(n - 1)

\* `for key := range node.Children`: Go leaves the order of a map's keys
\* open; seed picks one of the orders.
RECURSIVE MapRange(_, _)
MapRange(S, seed) ==
    IF S = {} THEN <<>>
    ELSE LET n == Cardinality(S)
             x == SetToSeq(S)[(seed % n) + 1]
         IN  <<x>> \o MapRange(S \ {x}, seed \div n)

\* Go's < on strings: bytewise lexicographic order.
RECURSIVE StringLess(_, _)
StringLess(a, b) ==
    IF b = <<>> THEN FALSE
    ELSE IF a = <<>> THEN TRUE
    ELSE IF a[1] # b[1] THEN a[1] < b[1]
    ELSE StringLess(Tail(a), Tail(b))

RECURSIVE InsertSorted(_, _)
InsertSorted(sorted, x) ==
    IF sorted = <<>> THEN <<x>>
    ELSE IF StringLess(x, Head(sorted)) THEN <<x>> \o sorted
    ELSE <<Head(sorted)>> \o InsertSorted(Tail(sorted), x)

RECURSIVE SortStringsFrom(_, _)
SortStringsFrom(done, rest) ==
    IF rest = <<>> THEN done
    ELSE SortStringsFrom(InsertSorted(done, Head(rest)), Tail(rest))

\* The keys in iteration order, without the sort.
UnsortedKeys(keys) == keys

\* sort.Strings(keys)
SortStrings(keys) == SortStringsFrom(<<>>, keys)

\* strings.Split(s, "\n")
RECURSIVE SplitLines(_)
SplitLines(s) ==
    LET nl == {i \in 1..Len(s) : s[i] = LF}
    IN  IF nl = {} THEN <<s>>
        ELSE LET i == CHOOSE k \in nl : \A j \in nl : k <= j
             IN  <<SubSeq(s, 1, i - 1)>> \o SplitLines(Drop(s, i))

writeQuotedString(s) == <<QUOTE>> \o s \o <<QUOTE>>

\* strings.Repeat("    ", indent)
RECURSIVE writeIndent(_)
writeIndent(indent) ==
    IF indent <= 0 THEN <<>>
    ELSE [i \in 1..IndentWidth |-> SP] \o writeIndent(indent - 1)

RECURSIVE writeCommentLines(_, _)
writeCommentLines(lines, indent) ==
    IF lines = <<>> THEN <<>>
    ELSE writeIndent(indent) \o <<SLASH, SLASH, SP>> \o Head(lines) \o <<LF>>
         \o writeCommentLines(Tail(lines), indent)

writeHeadComment(comment, indent) ==
    writeCommentLines(SplitLines(TrimSpace(comment)), indent)

writeLineComment(node) ==
    IF node.LineComment # <<>>
    THEN <<TAB, SLASH, SLASH, SP>> \o node.LineComment ELSE <<>>

\* The keys of node in the order encodeMap writes them.
mapKeys(node, seed) == SortStrings(MapRange(DOMAIN node.Children, seed))

\* A loop that also passes over a Map without children.
skipNilOrEmpty(child) ==
    \/ child.Type = NilType
    \/ child.Type = NodeTypeMap /\ DOMAIN child.Children = {}

\* A loop that passes over no child.
skipNone(child) == FALSE

\* encodeMap, lines 154-156: `if child == nil { continue }`
skipChild(child) == child.Type = NilType

RECURSIVE encodeMap(_, _, _)
RECURSIVE encodeChildren(_, _, _, _)

\* The body of encodeMap's loop over the sorted keys.
encodeChildren(node, keys, indent, seed) ==
    IF keys = <<>> THEN <<>>
    ELSE LET key == Head(keys)
             child == node.Children[key]
             one ==
               IF skipChild(child) THEN <<>>
               ELSE (IF child.HeadComment # <<>>
                     THEN writeHeadComment(child.HeadComment, indent) ELSE <<>>)
                    \o writeIndent(indent) \o writeQuotedString(key)
                    \o (IF child.Type = NodeTypeMap
                        THEN <<SP, LBRACE, LF>> \o encodeMap(child, indent + 1, seed)
                             \o writeIndent(indent) \o <<RBRACE, LF>>
                        ELSE IF child.Type = NodeTypeScalar
                        THEN <<SP>> \o writeQuotedString(child.Value)
                             \o writeLineComment(child) \o <<LF>>
                        ELSE <<>>)
         IN  one \o encodeChildren(node, Tail(keys), indent, seed)

encodeMap(node, indent, seed) ==
    IF Cardinality(DOMAIN node.Children) = 0 THEN <<>>
    ELSE encodeChildren(node, mapKeys(node, seed), indent, seed)

encodeScalar(node) ==
    (IF node.HeadComment # <<>> THEN writeHeadComment(node.HeadComment, 0) ELSE <<>>)
    \o writeQuotedString(node.Value) \o writeLineComment(node) \o <<LF>>

encodeNode(node, indent, seed) ==
    IF node.Type = NilType THEN [out |-> <<>>, err |-> ErrNilNode]
    ELSE IF node.Type = NodeTypeMap
    THEN [out |-> encodeMap(node, indent, seed), err |-> NoErr]
    ELSE IF node.Type = NodeTypeScalar
    THEN [out |-> encodeScalar(node), err |-> NoErr]
    ELSE [out |-> <<>>, err |-> newValidationError("unknown node type")]

\* Encoder.Encode of nil or of a *Node: the bytes it writes, and its error.
Encode(v, seed) ==
    IF v.Type = NilInterface THEN [out |-> <<>>, err |-> ErrNilValue]
    ELSE encodeNode(v, 0, seed)

\* The orders a `range` over the maps of a tree can take.
Seeds(node) == 0..(Factorial(Cardinality(DOMAIN node.Children)) - 1)

----------------------------------------------------------------------------
(* Inputs.                                                                 *)

\* The bytes a free tail is drawn from.
Alphabet == {QUOTE, LBRACE, RBRACE, SLASH, BSLASH, LowerA, UpperA, LF, BadByte}

\* Contexts a tail continues: nothing read, a key buffered, a block open,
\* a value being read, an upper-case key buffered, a comment line read.
Prefixes ==
    { <<>>,
      <<SLASH, SLASH, LowerA, LF>>,
      <<QUOTE, LowerA, QUOTE>>,
      <<QUOTE, LowerA, QUOTE, LBRACE>>,
      <<QUOTE, LowerA, QUOTE, QUOTE>>,
      <<QUOTE, UpperA, QUOTE>> }

\* "a"{"a""b"}"a"{"b""a"} : the key a written twice with Map values.
DocDuplicateMaps ==
    <<QUOTE, LowerA, QUOTE, LBRACE, QUOTE, LowerA, QUOTE, QUOTE, LowerB, QUOTE, RBRACE,
      QUOTE, LowerA, QUOTE, LBRACE, QUOTE, LowerB, QUOTE, QUOTE, LowerA, QUOTE, RBRACE>>

\* "key" "value with \"quotes\""
DocEscapedQuotes ==
    <<34, 107, 101, 121, 34, 32, 34, 118, 97, 108, 117, 101, 32, 119, 105, 116, 104, 32,
      92, 34, 113, 117, 111, 116, 101, 115, 92, 34, 34>>

\* value with "quotes"
ValueWithQuotes ==
    <<118, 97, 108, 117, 101, 32, 119, 105, 116, 104, 32, 34, 113, 117, 111, 116, 101,
      115, 34>>

\* "a" "b"
DocPair ==
    <<QUOTE, LowerA, QUOTE, SP, QUOTE, LowerB, QUOTE>>

\* "a" "b" // a : a line comment on the last line of a short input.
DocShortLineComment ==
    <<QUOTE, LowerA, QUOTE, SP, QUOTE, LowerB, QUOTE, SP, SLASH, SLASH, SP, LowerA>>

\* "a" "b" // a
\* "b"{
\* "a" "b"
\* }               : a line comment, then a Map and a Scalar on later lines.
DocLineCommentThenMap ==
    <<QUOTE, LowerA, QUOTE, SP, QUOTE, LowerB, QUOTE, SP, SLASH, SLASH, SP, LowerA, LF,
      QUOTE, LowerB, QUOTE, LBRACE, LF, QUOTE, LowerA, QUOTE, SP, QUOTE, LowerB, QUOTE,
      LF, RBRACE>>

\* //a
\* //
\* // b
\* "a"{"a""b"}    : comment lines, one of them empty, before a Map.
DocHeadComment ==
    <<SLASH, SLASH, LowerA, LF, SLASH, SLASH, LF, SLASH, SLASH, SP, LowerB, LF, QUOTE,
      LowerA, QUOTE, LBRACE, QUOTE, LowerA, QUOTE, QUOTE, LowerB, QUOTE, RBRACE>>

\* "a"{"b"}"a" : a block that closes while the key b waits for its value.
DocKeyBeforeClose ==
    <<QUOTE, LowerA, QUOTE, LBRACE, QUOTE, LowerB, QUOTE, RBRACE, QUOTE, LowerA, QUOTE>>

Documents ==
    {DocDuplicateMaps, DocEscapedQuotes, DocPair, DocShortLineComment,
     DocLineCommentThenMap, DocHeadComment, DocKeyBeforeClose}

RawInputs ==
    {p \o t : p \in Prefixes, t \in SeqsUpTo(Alphabet, MaxTail)} \cup Documents

\* Trees handed to Marshal: no comments, no byte that needs escaping.
TreeKeys == {<<>>, <<LowerA>>}
TreeValues == {<<LowerB>>}

ScalarTrees == {NewNode(NodeTypeScalar, v, <<>>, <<>>, 0, 0) : v \in TreeValues}

MapOver(kids) ==
    {[ZeroNode EXCEPT !.Children = c] :
        c \in UNION {[D -> kids] : D \in SUBSET TreeKeys}}

RECURSIVE MapTrees(_)
MapTrees(depth) ==
    IF depth <= 0 THEN {}
    ELSE MapOver(ScalarTrees \cup MapTrees(depth - 1))

\* Flat maps over keys whose order exercises the sort.
WideKeys == {<<>>, <<UpperA>>, <<LowerA>>, <<LowerA, LowerA>>}
WideTrees ==
    {[ZeroNode EXCEPT !.Children = c] :
        c \in UNION {[D -> ScalarTrees] : D \in SUBSET WideKeys}}

\* Trees whose children carry comments: a Scalar with each head comment and
\* line comment, a Map with a head comment, and a Scalar with a line comment
\* that is followed by more than PeekLen bytes of output.
HeadComments == {<<>>, <<LowerA>>, <<LowerA, LF, LowerB>>}
LineComments == {<<>>, <<LowerA>>}
LongValue == [i \in 1..8 |-> LowerB]
CommentTrees ==
    {[ZeroNode EXCEPT !.Children =
          MapPut(EmptyMap, <<LowerA>>, NewNode(NodeTypeScalar, <<LowerB>>, h, l, 0, 0))] :
        h \in HeadComments, l \in LineComments}
    \cup
    {[ZeroNode EXCEPT !.Children =
          MapPut(EmptyMap, <<LowerA>>,
                 [NewNode(NodeTypeMap, <<>>, h, <<>>, 0, 0) EXCEPT !.Children =
                      MapPut(EmptyMap, <<LowerA>>,
                             NewNode(NodeTypeScalar, <<LowerB>>, <<>>, <<>>, 0, 0))])] :
        h \in HeadComments \ {<<>>}}
    \cup
    {[ZeroNode EXCEPT !.Children =
          MapPut(MapPut(EmptyMap, <<LowerA>>,
                        NewNode(NodeTypeScalar, <<LowerB>>, <<>>, <<LowerA>>, 0, 0)),
                 <<LowerB>>, NewNode(NodeTypeScalar, LongValue, <<>>, <<>>, 0, 0))]}

Trees == MapTrees(MaxDepth) \cup WideTrees \cup CommentTrees

----------------------------------------------------------------------------
(* Decoder state (decode.go).                                              *)

VARIABLES
    orig,          \* the tree handed to Marshal, NilNode when the input is raw bytes
    input,         \* the bytes behind the bufio.Reader
    pos,           \* offset of the next unread byte (1-based)
    line, column,  \* Decoder.line, Decoder.column
    keyBuilder, valueBuilder,
    heap,          \* the nodes allocated by parse; heap[Root] is root
    stack,         \* parse's stack of open maps (pointers into heap)
    currentKey, headComment,
    pc,            \* "marshal", "parse", "readKey", "readValue", "done"
    parseErr,      \* the error parse returned
    decodeErr,     \* the error Decode returned
    target         \* the Node that Decode's argument points to

VARIABLES
    pool,          \* buffers lying in bufferPool
    bufs,          \* every bytes.Buffer allocated so far: its array and length
    mem,           \* the byte arrays allocated so far
    calls          \* the concurrent Marshal calls

VARIABLES
    encodeIn,      \* the value handed to Encoder.Encode
    written,       \* the bytes the Encoder has written to its io.Writer
    encodeErr      \* the error Encode returned

VARIABLES
    bindNode,      \* the Node handed to mapNodeToStruct
    fields,        \* the target struct: its fields, each with its value
    pending,       \* the keys of bindNode.Children the range has yet to reach
    bindErr,       \* the error mapNodeToStruct returned
    dest           \* what Decode's argument v holds: "node" (a *Node), "struct"
                   \* (a pointer to a struct), "nil", "nilStruct", "nilNode",
                   \* "value" (a struct, no pointer), "nonStruct" (a *string)

decoderVars == <<input, pos, line, column, keyBuilder, valueBuilder, heap, stack,
                 currentKey, headComment, pc, parseErr, decodeErr, target>>
poolVars == <<pool, bufs, mem, calls>>
encoderVars == <<encodeIn, written, encodeErr>>
binderVars == <<bindNode, fields, pending, bindErr, dest>>
otherVars == <<encoderVars, binderVars>>
vars == <<orig, decoderVars, poolVars, otherVars>>

Root == 1

\* NewDecoder and the first lines of parse.
DecoderInit ==
    /\ pos = 1
    /\ line = 1
    /\ column = 1
    /\ keyBuilder = <<>>
    /\ valueBuilder = <<>>
    /\ heap = <<NewNode(NodeTypeMap, <<>>, <<>>, <<>>, 1, 1)>>
    /\ stack = <<Root>>
    /\ currentKey = <<>>
    /\ headComment = <<>>
    /\ parseErr = NoErr
    /\ decodeErr = NoErr
    /\ target = ZeroNode

PoolIdle ==
    /\ pool = {}
    /\ bufs = <<>>
    /\ mem = <<>>
    /\ calls = <<>>

EncoderIdle ==
    /\ encodeIn = NilValue
    /\ written = <<>>
    /\ encodeErr = NoErr

BinderIdle ==
    /\ bindNode = ZeroNode
    /\ fields = <<>>
    /\ pending = {}
    /\ bindErr = NoErr
    /\ dest = "node"

Init ==
    /\ DecoderInit
    /\ PoolIdle
    /\ EncoderIdle
    /\ BinderIdle
    /\ \/ orig = NilNode /\ input \in RawInputs /\ pc = "parse"
       \/ orig \in Trees /\ input = <<>> /\ pc = "marshal"

----------------------------------------------------------------------------
(* Decoder steps.                                                          *)

\* What d.reader.ReadRune() returns next.
Rune == ReadRune(input, pos)

\* The position update after a rune is read.
NextLine(r) == IF r = LF THEN line + 1 ELSE line
NextColumn(r) == IF r = LF THEN 1 ELSE column + 1

\* `r == unicode.ReplacementChar && size == 1`
IsInvalidRune(rr) == rr.r = ReplacementChar /\ rr.size = 1

\* Decode's fmt.Errorf("line %d, column %d: %w", d.line, d.column, err)
WrapError(ln, col) ==
    [Kind |-> "wrapError", Message |-> "line %d, column %d: %w", Line |-> ln,
     Column |-> col, Expected |-> "", Found |-> <<>>]

\* A Decode that copies the root into the target before it looks at e.
ReturnPartial(e, ln, col) ==
    /\ pc' = "done"
    /\ line' = ln
    /\ column' = col
    /\ parseErr' = e
    /\ decodeErr' = IF e = NoErr THEN NoErr ELSE WrapError(ln, col)
    /\ target' = TreeOf(heap, Root)

\* parse returns (root, e) with the decoder at ln, col, and Decode, whose
\* argument is a *Node, returns: the root is copied into the target only
\* when e is nil.
Return(e, ln, col) ==
    /\ pc' = "done"
    /\ line' = ln
    /\ column' = col
    /\ parseErr' = e
    /\ decodeErr' = IF e = NoErr THEN NoErr ELSE WrapError(ln, col)
    /\ target' = IF e = NoErr THEN TreeOf(heap, Root) ELSE target

\* parse, line 123: ReadRune reports io.EOF and the loop ends.
ParseEOFAsError ==
    /\ pc = "parse"
    /\ Rune.eof
    /\ Return(IF Len(stack) > 1 THEN ErrEOF ELSE NoErr, line, column)
    /\ UNCHANGED <<orig, otherVars, input, pos, keyBuilder, valueBuilder, heap, stack, currentKey,
                   headComment, poolVars>>

ParseEOF ==
    /\ pc = "parse"
    /\ Rune.eof
    /\ Return(NoErr, line, column)
    /\ UNCHANGED <<orig, otherVars, input, pos, keyBuilder, valueBuilder, heap, stack, currentKey,
                   headComment, poolVars>>

\* parse, line 139: an invalid rune read by the main loop.
ParseInvalidRune ==
    /\ pc = "parse"
    /\ ~Rune.eof
    /\ IsInvalidRune(Rune)
    /\ pos' = pos + Rune.size
    /\ Return(newPositionError(NextLine(Rune.r), NextColumn(Rune.r), "invalid rune"),
              NextLine(Rune.r), NextColumn(Rune.r))
    /\ UNCHANGED <<orig, otherVars, input, keyBuilder, valueBuilder, heap, stack, currentKey,
                   headComment, poolVars>>

\* The main loop has read a valid rune and calls processRune.
Processing == pc = "parse" /\ ~Rune.eof /\ ~IsInvalidRune(Rune)

\* A processRune that looks at a space without reading it.
SkipRuneStuck ==
    /\ Processing
    /\ \/ Rune.r \in {SP, TAB, LF, CR}
       \/ Rune.r = BOM
       \/ Rune.r \notin {SLASH, LBRACE, RBRACE, QUOTE} /\ IsSpace(Rune.r)
    /\ UNCHANGED vars

\* processRune: whitespace, the byte order mark, any other unicode space.
SkipRune ==
    /\ Processing
    /\ \/ Rune.r \in {SP, TAB, LF, CR}
       \/ Rune.r = BOM
       \/ Rune.r \notin {SLASH, LBRACE, RBRACE, QUOTE} /\ IsSpace(Rune.r)
    /\ pos' = pos + Rune.size
    /\ line' = NextLine(Rune.r)
    /\ column' = NextColumn(Rune.r)
    /\ UNCHANGED <<orig, otherVars, input, keyBuilder, valueBuilder, heap, stack, currentKey,
                   headComment, pc, parseErr, decodeErr, target, poolVars>>

\* processRune, default: no VDF character.
UnexpectedCharacter ==
    /\ Processing
    /\ Rune.r \notin {SP, TAB, LF, CR, SLASH, LBRACE, RBRACE, BOM, QUOTE}
    /\ ~IsSpace(Rune.r)
    /\ pos' = pos + Rune.size
    /\ Return(newParseErrorWithExpected(NextLine(Rune.r), NextColumn(Rune.r),
                  "unexpected character", "valid VDF character", WriteRune(Rune.r)),
              NextLine(Rune.r), NextColumn(Rune.r))
    /\ UNCHANGED <<orig, otherVars, input, keyBuilder, valueBuilder, heap, stack, currentKey,
                   headComment, poolVars>>

\* A comment line added with no newline between it and the buffer.
AddCommentUnjoined(head, comment) == head \o comment

\* handleComment's addition of a comment line to the head comment.
AddComment(head, comment) ==
    IF comment # <<>>
    THEN (IF head # <<>> THEN head \o <<LF>> ELSE head) \o comment
    ELSE head

\* processRune, case '/': handleComment, to the end of the line.
HandleComment ==
    /\ Processing
    /\ Rune.r = SLASH
    /\ LET second == ReadRune(input, pos + Rune.size)
           rest == pos + Rune.size + second.size
           text == ReadString(input, rest)
       IN  IF second.eof THEN
               /\ pos' = pos + Rune.size
               /\ Return(ErrEOF, line, column + 1)
               /\ UNCHANGED headComment
           ELSE IF second.r # SLASH THEN
               /\ pos' = rest
               /\ Return(newParseErrorWithExpected(line, column + 1,
                             "expected '//' for comment", "//",
                             <<SLASH>> \o WriteRune(second.r)),
                         line, column + 1)
               /\ UNCHANGED headComment
           ELSE
               /\ pos' = rest + Len(text)
               /\ headComment' = AddComment(headComment, TrimSpace(TrimRightNewlines(text)))
               /\ line' = line + 1
               /\ column' = 1
               /\ UNCHANGED <<pc, parseErr, decodeErr, target>>
    /\ UNCHANGED <<orig, otherVars, input, keyBuilder, valueBuilder, heap, stack, currentKey, poolVars>>

\* processRune, case '{': a new Map under the buffered key.
OpenBrace ==
    /\ Processing
    /\ Rune.r = LBRACE
    /\ pos' = pos + Rune.size
    /\ IF Len(stack) = 0 THEN
           /\ Return(newParseError(line, column + 1, "unexpected '{' at root level"),
                     line, column + 1)
           /\ UNCHANGED <<heap, stack, currentKey, headComment>>
       ELSE
           LET current == stack[Len(stack)]
               newNode == Len(heap) + 1
           IN  /\ heap' = Append(
                     [heap EXCEPT ![current].Children = MapPut(@, currentKey, newNode)],
                     NewNode(NodeTypeMap, <<>>, TrimSpace(headComment), <<>>,
                             line, (column + 1) - 1))
               /\ stack' = Append(stack, newNode)
               /\ currentKey' = <<>>
               /\ headComment' = <<>>
               /\ line' = line
               /\ column' = column + 1
               /\ UNCHANGED <<pc, parseErr, decodeErr, target>>
    /\ UNCHANGED <<orig, otherVars, input, keyBuilder, valueBuilder, poolVars>>

\* A lenient guard: only an empty stack counts as the root level.
AtRootLevelOffByOne(st) == Len(st) <= 0

\* processRune, case '}': `len(*stack) <= 1`
AtRootLevel(st) == Len(st) <= 1

\* processRune, case '}': the end of the current map.
CloseBrace ==
    /\ Processing
    /\ Rune.r = RBRACE
    /\ pos' = pos + Rune.size
    /\ IF AtRootLevel(stack) THEN
           /\ Return(newParseError(line, column + 1, "unexpected '}' at root level"),
                     line, column + 1)
           /\ UNCHANGED stack
       ELSE
           /\ stack' = SubSeq(stack, 1, Len(stack) - 1)
           /\ line' = line
           /\ column' = column + 1
           /\ UNCHANGED <<pc, parseErr, decodeErr, target>>
    /\ UNCHANGED <<orig, otherVars, input, keyBuilder, valueBuilder, heap, currentKey, headComment,
                   poolVars>>

\* processRune, case '"': handleQuotedString enters readKey or readValue,
\* each of which first resets its builder.
HandleQuotedString ==
    /\ Processing
    /\ Rune.r = QUOTE
    /\ pos' = pos + Rune.size
    /\ line' = line
    /\ column' = column + 1
    /\ IF currentKey = <<>>
       THEN pc' = "readKey" /\ keyBuilder' = <<>> /\ UNCHANGED valueBuilder
       ELSE pc' = "readValue" /\ valueBuilder' = <<>> /\ UNCHANGED keyBuilder
    /\ UNCHANGED <<orig, otherVars, input, heap, stack, currentKey, headComment, parseErr, decodeErr,
                   target, poolVars>>

\* readKey, line 258: end of input before the closing quote, taken as
\* the end of the key.
ReadKeyEOFAsKey ==
    /\ pc = "readKey"
    /\ Rune.eof
    /\ currentKey' = keyBuilder
    /\ pc' = "parse"
    /\ UNCHANGED <<orig, otherVars, input, pos, line, column, keyBuilder, valueBuilder, heap, stack,
                   headComment, parseErr, decodeErr, target, poolVars>>

\* readKey, line 258: end of input before the closing quote.
ReadKeyEOF ==
    /\ pc = "readKey"
    /\ Rune.eof
    /\ Return(ErrEOF, line, column)
    /\ UNCHANGED <<orig, otherVars, input, pos, keyBuilder, valueBuilder, heap, stack, currentKey,
                   headComment, poolVars>>

\* readKey, line 271: `*currentKey = d.keyBuilder.String()`
KeyOf(builder) == builder

\* One turn of readKey's loop: the closing quote ends the key, any other
\* rune is appended to it.
ReadKeyRune ==
    /\ pc = "readKey"
    /\ ~Rune.eof
    /\ pos' = pos + Rune.size
    /\ line' = NextLine(Rune.r)
    /\ column' = NextColumn(Rune.r)
    /\ IF Rune.r = QUOTE
       THEN currentKey' = KeyOf(keyBuilder) /\ pc' = "parse" /\ UNCHANGED keyBuilder
       ELSE keyBuilder' = keyBuilder \o WriteRune(Rune.r) /\ UNCHANGED <<currentKey, pc>>
    /\ UNCHANGED <<orig, otherVars, input, valueBuilder, heap, stack, headComment, parseErr,
                   decodeErr, target, poolVars>>

\* readValue, line 285: end of input before the closing quote.
ReadValueEOF ==
    /\ pc = "readValue"
    /\ Rune.eof
    /\ Return(ErrEOF, line, column)
    /\ UNCHANGED <<orig, otherVars, input, pos, keyBuilder, valueBuilder, heap, stack, currentKey,
                   headComment, poolVars>>

\* readValue, lines 303-306: the backslashes at the end of value.
RECURSIVE backslashCount(_)
backslashCount(value) ==
    IF value # <<>> /\ value[Len(value)] = BSLASH
    THEN 1 + backslashCount(Front(value))
    ELSE 0

\* A quote counts as escaped whenever one backslash precedes it.
isEscapedQuoteAnyBackslash(value) == Len(value) > 0 /\ backslashCount(value) >= 1

\* readValue, lines 299-309: is the quote just read escaped?
isEscapedQuote(value) == Len(value) > 0 /\ backslashCount(value) % 2 = 1

\* hasLineComment with the reader at offset p.
hasLineComment(s, p) ==
    IF Len(s) - p + 1 < PeekLen THEN FALSE
    ELSE LET peeked == SubSeq(s, p, p + PeekLen - 1)
             solid == {i \in 1..PeekLen : ~IsSpace(peeked[i])}
         IN  IF solid = {} THEN FALSE
             ELSE LET i == CHOOSE k \in solid : \A j \in solid : k <= j
                  IN  peeked[i] = SLASH /\ i + 1 <= PeekLen /\ peeked[i + 1] = SLASH

\* extractLineComment on the line it has read.
extractLineComment(text) ==
    LET commentStart == IndexSlashSlash(text)
    IN  IF commentStart = -1 THEN <<>> ELSE TrimSpace(Drop(text, commentStart + 2))

\* The column of the value's opening quote itself.
scalarColumnAtQuote(col, value) == col - Len(value) - 2 - CountByte(value, QUOTE)

\* readValue, line 336: the Column of the new Scalar, with d.column at col.
scalarColumn(col, value) == col - Len(value) - 3 - CountByte(value, QUOTE)

\* One turn of readValue's loop: an escaped quote replaces its backslash,
\* an unescaped one ends the value and inserts the Scalar, any other rune
\* is appended.
ReadValueRune ==
    /\ pc = "readValue"
    /\ ~Rune.eof
    /\ line' = NextLine(Rune.r)
    /\ column' = NextColumn(Rune.r)
    /\ IF Rune.r # QUOTE THEN
           /\ valueBuilder' = valueBuilder \o WriteRune(Rune.r)
           /\ pos' = pos + Rune.size
           /\ UNCHANGED <<heap, currentKey, headComment, pc>>
       ELSE IF isEscapedQuote(valueBuilder) THEN
           /\ valueBuilder' = Front(valueBuilder) \o WriteRune(Rune.r)
           /\ pos' = pos + Rune.size
           /\ UNCHANGED <<heap, currentKey, headComment, pc>>
       ELSE
           LET value == valueBuilder
               after == pos + Rune.size
               found == hasLineComment(input, after)
               text == ReadString(input, after)
               lineComment == IF found THEN extractLineComment(text) ELSE <<>>
               current == stack[Len(stack)]
               newNode == Len(heap) + 1
           IN  /\ pos' = IF found THEN after + Len(text) ELSE after
               /\ heap' = Append(
                     [heap EXCEPT ![current].Children = MapPut(@, currentKey, newNode)],
                     NewNode(NodeTypeScalar, value, TrimSpace(headComment), lineComment,
                             line, scalarColumn(column + 1, value)))
               /\ currentKey' = <<>>
               /\ headComment' = <<>>
               /\ pc' = "parse"
               /\ UNCHANGED valueBuilder
    /\ UNCHANGED <<orig, otherVars, input, keyBuilder, stack, parseErr, decodeErr, target, poolVars>>

\* Marshal of the tree, with the maps ranged over in some order; its
\* bytes are what Unmarshal then reads.
MarshalTree ==
    /\ pc = "marshal"
    /\ \E seed \in Seeds(orig) :
          input' = Encode(orig, seed).out
    /\ pc' = "parse"
    /\ UNCHANGED <<orig, otherVars, pos, line, column, keyBuilder, valueBuilder, heap, stack,
                   currentKey, headComment, parseErr, decodeErr, target, poolVars>>

Next ==
    \/ MarshalTree
    \/ ParseEOF
    \/ ParseInvalidRune
    \/ SkipRune
    \/ UnexpectedCharacter
    \/ HandleComment
    \/ OpenBrace
    \/ CloseBrace
    \/ HandleQuotedString
    \/ ReadKeyEOF
    \/ ReadKeyRune
    \/ ReadValueEOF
    \/ ReadValueRune

Spec == Init /\ [][Next]_vars

\* Decode of raw bytes alone: the inputs and the steps of one call.
FairInputs ==
    {p \o t : p \in Prefixes, t \in SeqsUpTo(Alphabet, MaxFairTail)} \cup Documents

InitFair ==
    /\ DecoderInit
    /\ PoolIdle
    /\ EncoderIdle
    /\ BinderIdle
    /\ orig = NilNode
    /\ input \in FairInputs
    /\ pc = "parse"

NextDecode ==
    \/ ParseEOF
    \/ ParseInvalidRune
    \/ SkipRune
    \/ UnexpectedCharacter
    \/ HandleComment
    \/ OpenBrace
    \/ CloseBrace
    \/ HandleQuotedString
    \/ ReadKeyEOF
    \/ ReadKeyRune
    \/ ReadValueEOF
    \/ ReadValueRune

\* Decode is one sequential call: parse's `for` loop (decode.go:121) and the
\* loops of readKey, readValue and handleComment run their next iteration
\* as long as there is one, so a step that can be taken is taken.
SpecFair == InitFair /\ [][NextDecode]_vars /\ WF_vars(NextDecode)

----------------------------------------------------------------------------
(* Marshal and the buffer pool (encode.go, internal/pool.go).              *)

Calls == 1..MaxCalls

\* What the concurrent callers hand to Marshal.
MarshalInputs ==
    { NilValue,
      NewNode(NodeTypeScalar, <<LowerA>>, <<>>, <<>>, 0, 0),
      [ZeroNode EXCEPT !.Children =
          [k \in {<<LowerA>>} |-> NewNode(NodeTypeScalar, <<LowerB>>, <<>>, <<>>, 0, 0)]] }

NilSlice == [arr |-> 0, len |-> 0]

\* The bytes a []byte holds.
Bytes(slice) == IF slice.arr = 0 THEN <<>> ELSE SubSeq(mem[slice.arr], 1, slice.len)

NewCall(in) ==
    [pc |-> "get", in |-> in, buffer |-> 0, todo |-> <<>>, err |-> NoErr,
     result |-> NilSlice]

InitMarshal ==
    /\ DecoderInit
    /\ EncoderIdle
    /\ BinderIdle
    /\ orig = NilNode
    /\ input = <<>>
    /\ pc = "idle"
    /\ pool = {}
    /\ bufs = <<>>
    /\ mem = <<>>
    /\ calls \in [Calls -> {NewCall(in) : in \in MarshalInputs}]

\* getBuffer, line 22: Pool.Get hands out a buffer lying in the pool, or
\* a new one from the constructor.
GetBuffer(p) ==
    /\ calls[p].pc = "get"
    /\ \/ \E b \in pool :
             /\ pool' = pool \ {b}
             /\ calls' = [calls EXCEPT ![p].buffer = b, ![p].pc = "reset"]
             /\ UNCHANGED <<bufs, mem>>
       \/ /\ bufs' = Append(bufs, [arr |-> Len(mem) + 1, len |-> 0])
          /\ mem' = Append(mem, <<>>)
          /\ calls' = [calls EXCEPT ![p].buffer = Len(bufs) + 1, ![p].pc = "reset"]
          /\ UNCHANGED pool
    /\ UNCHANGED <<orig, otherVars, decoderVars>>

\* getBuffer, line 23: b.Reset() empties the buffer and keeps its array.
ResetBuffer(p) ==
    /\ calls[p].pc = "reset"
    /\ bufs' = [bufs EXCEPT ![calls[p].buffer].len = 0]
    /\ calls' = [calls EXCEPT ![p].pc = "encode"]
    /\ UNCHANGED <<orig, otherVars, decoderVars, pool, mem>>

\* Marshal, line 63: Encode decides what it will write, the maps ranged
\* over in some order.
EncodeStart(p) ==
    /\ calls[p].pc = "encode"
    /\ \E seed \in Seeds(calls[p].in) :
          calls' = [calls EXCEPT ![p].todo = Encode(calls[p].in, seed).out,
                                 ![p].err = Encode(calls[p].in, seed).err,
                                 ![p].pc = "write"]
    /\ UNCHANGED <<orig, otherVars, decoderVars, pool, bufs, mem>>

\* One byte written by the encoder into this call's buffer.
WriteBuffer(p) ==
    /\ calls[p].pc = "write"
    /\ calls[p].todo # <<>>
    /\ LET b == calls[p].buffer
           a == bufs[b].arr
           n == bufs[b].len
       IN  /\ mem' = [mem EXCEPT ![a] =
                        IF n < Len(@) THEN [@ EXCEPT ![n + 1] = Head(calls[p].todo)]
                        ELSE Append(@, Head(calls[p].todo))]
           /\ bufs' = [bufs EXCEPT ![b].len = n + 1]
    /\ calls' = [calls EXCEPT ![p].todo = Tail(@)]
    /\ UNCHANGED <<orig, otherVars, decoderVars, pool>>

\* Marshal returning buffer.Bytes() itself: a view of the pooled array.
MarshalReturnView(p) ==
    /\ calls[p].pc = "write"
    /\ calls[p].todo = <<>>
    /\ calls' = [calls EXCEPT ![p].result =
                    IF calls[p].err # NoErr THEN NilSlice ELSE bufs[calls[p].buffer],
                              ![p].pc = "put"]
    /\ UNCHANGED <<orig, otherVars, decoderVars, pool, bufs, mem>>

\* Marshal, lines 63-67: Encode has returned; on success the result is
\* `append([]byte(nil), buffer.Bytes()...)`, a fresh array.
MarshalReturn(p) ==
    /\ calls[p].pc = "write"
    /\ calls[p].todo = <<>>
    /\ IF calls[p].err # NoErr THEN
           /\ calls' = [calls EXCEPT ![p].result = NilSlice, ![p].pc = "put"]
           /\ UNCHANGED mem
       ELSE
           /\ mem' = Append(mem, Bytes(bufs[calls[p].buffer]))
           /\ calls' = [calls EXCEPT
                 ![p].result = [arr |-> Len(mem) + 1, len |-> bufs[calls[p].buffer].len],
                 ![p].pc = "put"]
    /\ UNCHANGED <<orig, otherVars, decoderVars, pool, bufs>>

\* Marshal's deferred putBuffer: the buffer goes back to the pool.
PutBuffer(p) ==
    /\ calls[p].pc = "put"
    /\ pool' = pool \cup {calls[p].buffer}
    /\ calls' = [calls EXCEPT ![p].pc = "done"]
    /\ UNCHANGED <<orig, otherVars, decoderVars, bufs, mem>>

NextMarshal ==
    \E p \in Calls :
        \/ GetBuffer(p)
        \/ ResetBuffer(p)
        \/ EncodeStart(p)
        \/ WriteBuffer(p)
        \/ MarshalReturn(p)
        \/ PutBuffer(p)

SpecMarshal == InitMarshal /\ [][NextMarshal]_vars

----------------------------------------------------------------------------
(* Encoder.Encode on trees (encode.go).                                    *)

UnknownNode == NewNode(UnknownType, <<>>, <<>>, <<>>, 0, 0)

\* What a Map handed to Encode may hold: a Scalar, a nil pointer, a node
\* of unknown type, another Map.
EncodeKids == ScalarTrees \cup {NilNode, UnknownNode}

RECURSIVE EncodeMaps(_)
EncodeMaps(depth) ==
    IF depth <= 0 THEN {}
    ELSE MapOver(EncodeKids \cup EncodeMaps(depth - 1))

EncodeInputs ==
    {NilValue, NilNode, UnknownNode} \cup ScalarTrees \cup EncodeMaps(MaxDepth)

InitEncode ==
    /\ DecoderInit
    /\ PoolIdle
    /\ BinderIdle
    /\ orig = NilNode
    /\ input = <<>>
    /\ pc = "encode"
    /\ encodeIn \in EncodeInputs
    /\ written = <<>>
    /\ encodeErr = NoErr

\* Encode, lines 88-90: `v == nil`.
EncodeNilValue ==
    /\ pc = "encode"
    /\ encodeIn.Type = NilInterface
    /\ written' = Encode(encodeIn, 0).out
    /\ encodeErr' = Encode(encodeIn, 0).err
    /\ pc' = "done"
    /\ UNCHANGED <<orig, encodeIn, binderVars, poolVars, input, pos, line, column,
                   keyBuilder, valueBuilder, heap, stack, currentKey, headComment,
                   parseErr, decodeErr, target>>

\* Encode, lines 93-95: v is a *Node and encodeNode writes it.
EncodeNodeValue ==
    /\ pc = "encode"
    /\ encodeIn.Type # NilInterface
    /\ \E seed \in Seeds(encodeIn) :
          /\ written' = Encode(encodeIn, seed).out
          /\ encodeErr' = Encode(encodeIn, seed).err
    /\ pc' = "done"
    /\ UNCHANGED <<orig, encodeIn, binderVars, poolVars, input, pos, line, column,
                   keyBuilder, valueBuilder, heap, stack, currentKey, headComment,
                   parseErr, decodeErr, target>>

NextEncode == EncodeNilValue \/ EncodeNodeValue

SpecEncode == InitEncode /\ [][NextEncode]_vars

----------------------------------------------------------------------------
(* Binding a Node to a struct (decode.go: mapNodeToStruct).                *)

IsDigit(b) == b \in Digit0..Digit9

\* The digits s starts with.
RECURSIVE DigitRun(_)
DigitRun(s) ==
    IF s # <<>> /\ IsDigit(s[1]) THEN <<s[1]>> \o DigitRun(Tail(s)) ELSE <<>>

\* A run of digits as a magnitude: no leading zero, "0" for zero.
RECURSIVE StripZeros(_)
StripZeros(d) ==
    IF Len(d) > 1 /\ d[1] = Digit0 THEN StripZeros(Tail(d))
    ELSE IF d = <<>> THEN <<Digit0>> ELSE d

\* a < b for two magnitudes.
MagLess(a, b) == Len(a) < Len(b) \/ (Len(a) = Len(b) /\ StringLess(a, b))

\* 1<<bits - 1, 1<<(bits-1) - 1 and 1<<(bits-1), in decimal digits.
maxUint(bits) ==
    CASE bits = 8 -> <<50, 53, 53>>
      [] bits = 16 -> <<54, 53, 53, 51, 53>>
      [] bits = 32 -> <<52, 50, 57, 52, 57, 54, 55, 50, 57, 53>>
      [] bits = 64 -> <<49, 56, 52, 52, 54, 55, 52, 52, 48, 55, 51, 55, 48, 57, 53, 53, 49, 54, 49, 53>>
maxInt(bits) ==
    CASE bits = 8 -> <<49, 50, 55>>
      [] bits = 16 -> <<51, 50, 55, 54, 55>>
      [] bits = 32 -> <<50, 49, 52, 55, 52, 56, 51, 54, 52, 55>>
      [] bits = 64 -> <<57, 50, 50, 51, 51, 55, 50, 48, 51, 54, 56, 53, 52, 55, 55, 53, 56, 48, 55>>
minIntMagnitude(bits) ==
    CASE bits = 8 -> <<49, 50, 56>>
      [] bits = 16 -> <<51, 50, 55, 54, 56>>
      [] bits = 32 -> <<50, 49, 52, 55, 52, 56, 51, 54, 52, 56>>
      [] bits = 64 -> <<57, 50, 50, 51, 51, 55, 50, 48, 51, 54, 56, 53, 52, 55, 55, 53, 56, 48, 56>>

\* strconv.ParseUint(s, 10, 64): the scan stops at the first byte that is
\* no digit (invalid syntax) or at the digit that takes the number past
\* 1<<64 - 1 (value out of range), whichever comes first.
ParseUint(s) ==
    LET run == DigitRun(s)
        mag == StripZeros(run)
    IN  IF run # <<>> /\ MagLess(maxUint(64), mag)
        THEN [err |-> "value out of range", neg |-> FALSE, mag |-> maxUint(64)]
        ELSE IF run # s \/ s = <<>>
        THEN [err |-> "invalid syntax", neg |-> FALSE, mag |-> <<Digit0>>]
        ELSE [err |-> "", neg |-> FALSE, mag |-> mag]

\* strconv.ParseInt(s, 10, 64): an optional sign, then ParseUint, then the
\* comparison with the cutoff 1<<63.
ParseInt(s) ==
    IF s = <<>> THEN [err |-> "invalid syntax", neg |-> FALSE, mag |-> <<Digit0>>]
    ELSE LET neg == s[1] = MINUS
             un == ParseUint(IF s[1] \in {PLUS, MINUS} THEN Tail(s) ELSE s)
         IN  IF un.err = "invalid syntax" THEN un
             ELSE IF \/ un.err = "value out of range"
                     \/ ~neg /\ ~MagLess(un.mag, minIntMagnitude(64))
                     \/ neg /\ MagLess(minIntMagnitude(64), un.mag)
             THEN [err |-> "value out of range", neg |-> neg,
                   mag |-> IF neg THEN minIntMagnitude(64) ELSE maxInt(64)]
             ELSE [err |-> "", neg |-> neg /\ un.mag # <<Digit0>>, mag |-> un.mag]

\* strconv.ParseBool
ParseBool(s) ==
    IF s \in {<<49>>, <<116>>, <<84>>, <<84, 82, 85, 69>>, <<116, 114, 117, 101>>, <<84, 114, 117, 101>>}
    THEN [err |-> "", val |-> <<116, 114, 117, 101>>]
    ELSE IF s \in {<<48>>, <<102>>, <<70>>, <<70, 65, 76, 83, 69>>, <<102, 97, 108, 115, 101>>, <<70, 97, 108, 115, 101>>}
    THEN [err |-> "", val |-> <<102, 97, 108, 115, 101>>]
    ELSE [err |-> "invalid syntax", val |-> <<102, 97, 108, 115, 101>>]

\* strconv.FormatInt(x, 10), strconv.FormatUint(x, 10)
FormatInt(x) == (IF x.neg THEN <<MINUS>> ELSE <<>>) \o x.mag

\* A width check that lets every value through.
OverflowIntNever(x, bits) == FALSE

\* reflect.Value.OverflowInt for a field of the given width.
OverflowInt(x, bits) ==
    IF x.neg THEN MagLess(minIntMagnitude(bits), x.mag) ELSE MagLess(maxInt(bits), x.mag)

\* reflect.Value.OverflowUint for a field of the given width.
OverflowUint(x, bits) == MagLess(maxUint(bits), x.mag)

newTypeError(valueType, val, original) ==
    [Kind |-> "TypeError", Message |-> valueType, Line |-> 0, Column |-> 0,
     Expected |-> original, Found |-> val]
newOverflowError(valueType, val) ==
    [Kind |-> "OverflowError", Message |-> valueType, Line |-> 0, Column |-> 0,
     Expected |-> "", Found |-> val]

\* A struct field: its Go name, its `vdf` tag, its kind and width, and the
\* value it holds (numbers as strconv formats them).
Field(name, tag, kind, bits, val) ==
    [Name |-> name, Tag |-> tag, Kind |-> kind, Bits |-> bits, Val |-> val]

\* reflect.StructField.IsExported: the name starts with an upper-case letter.
IsExported(f) == f.Name # <<>> /\ f.Name[1] \in UpperA..UpperZ

\* The zero value of a field of the given kind.
ZeroValue(kind) ==
    CASE kind = "string" -> <<>>
      [] kind = "bool" -> <<102, 97, 108, 115, 101>>
      [] kind \in {"int", "uint"} -> <<Digit0>>
      [] OTHER -> <<>>

\* strings.Split(tag, ",")[0]
FirstSegment(tag) ==
    LET at == {i \in 1..Len(tag) : tag[i] = COMMA}
    IN  IF at = {} THEN tag
        ELSE SubSeq(tag, 1, (CHOOSE i \in at : \A j \in at : i <= j) - 1)

\* buildFieldMap, lines 468-477: the name a field is looked up by.
fieldName(f) ==
    IF f.Tag # <<>> /\ f.Tag # <<MINUS>> THEN FirstSegment(f.Tag) ELSE ToLower(f.Name)

\* buildFieldMap: lookup name -> index of the field; unexported fields and
\* fields named "-" are left out, a later field replaces an earlier one.
buildFieldMap(fs) ==
    LET kept == {i \in DOMAIN fs : IsExported(fs[i]) /\ fieldName(fs[i]) # <<MINUS>>}
    IN  [n \in {fieldName(fs[i]) : i \in kept} |->
            CHOOSE i \in kept :
                /\ fieldName(fs[i]) = n
                /\ \A j \in kept : fieldName(fs[j]) = n => j <= i]

\* strings.EqualFold on ASCII text.
EqualFold(a, b) == ToLower(a) = ToLower(b)

\* A lookup that tries the case-insensitive match before the exact one.
resolveFoldFirst(fs, key) ==
    LET fieldMap == buildFieldMap(fs)
    IN  {fieldMap[n] : n \in {x \in DOMAIN fieldMap : EqualFold(x, key)}}

\* mapNodeToStruct, lines 406-419: the fields a key may resolve to: the
\* exact match, else any case-insensitive match the range meets first.
resolve(fs, key) ==
    LET fieldMap == buildFieldMap(fs)
    IN  IF key \in DOMAIN fieldMap THEN {fieldMap[key]}
        ELSE {fieldMap[n] : n \in {x \in DOMAIN fieldMap : EqualFold(x, key)}}

\* setScalarValue: the error, and the value the field holds afterwards.
setScalarValue(f, val) ==
    CASE f.Kind = "string" -> [err |-> NoErr, val |-> val]
      [] f.Kind = "bool" ->
            LET b == ParseBool(val)
            IN  IF b.err # "" THEN [err |-> newTypeError("bool", val, b.err), val |-> f.Val]
                ELSE [err |-> NoErr, val |-> b.val]
      [] f.Kind = "int" ->
            LET x == ParseInt(val)
            IN  IF x.err # "" THEN [err |-> newTypeError("int", val, x.err), val |-> f.Val]
                ELSE IF OverflowInt(x, f.Bits)
                THEN [err |-> newOverflowError("int", val), val |-> f.Val]
                ELSE [err |-> NoErr, val |-> FormatInt(x)]
      [] f.Kind = "uint" ->
            LET x == ParseUint(val)
            IN  IF x.err # "" THEN [err |-> newTypeError("uint", val, x.err), val |-> f.Val]
                ELSE IF OverflowUint(x, f.Bits)
                THEN [err |-> newOverflowError("uint", val), val |-> f.Val]
                ELSE [err |-> NoErr, val |-> FormatInt(x)]
      [] OTHER ->
            [err |-> newValidationError("unsupported type for scalar value"),
             val |-> f.Val]

\* setMapValue on a field that is no struct, pointer or map.
setMapValue(f) ==
    [err |-> newValidationError("unsupported type for map value"), val |-> f.Val]

\* The scalar values bound.
BindValues ==
    { <<>>,
      <<48>>,
      <<49>>,
      <<45, 49>>,
      <<43, 49>>,
      <<48, 48, 55>>,
      <<97>>,
      <<49, 97>>,
      <<45>>,
      <<49, 50, 55>>,
      <<49, 50, 56>>,
      <<45, 49, 50, 56>>,
      <<45, 49, 50, 57>>,
      <<50, 53, 53>>,
      <<50, 53, 54>>,
      <<51, 50, 55, 54, 55>>,
      <<51, 50, 55, 54, 56>>,
      <<45, 51, 50, 55, 54, 56>>,
      <<45, 51, 50, 55, 54, 57>>,
      <<54, 53, 53, 51, 53>>,
      <<54, 53, 53, 51, 54>>,
      <<50, 49, 52, 55, 52, 56, 51, 54, 52, 55>>,
      <<50, 49, 52, 55, 52, 56, 51, 54, 52, 56>>,
      <<45, 50, 49, 52, 55, 52, 56, 51, 54, 52, 56>>,
      <<45, 50, 49, 52, 55, 52, 56, 51, 54, 52, 57>>,
      <<52, 50, 57, 52, 57, 54, 55, 50, 57, 53>>,
      <<52, 50, 57, 52, 57, 54, 55, 50, 57, 54>>,
      <<57, 50, 50, 51, 51, 55, 50, 48, 51, 54, 56, 53, 52, 55, 55, 53, 56, 48, 55>>,
      <<57, 50, 50, 51, 51, 55, 50, 48, 51, 54, 56, 53, 52, 55, 55, 53, 56, 48, 56>>,
      <<45, 57, 50, 50, 51, 51, 55, 50, 48, 51, 54, 56, 53, 52, 55, 55, 53, 56, 48, 56>>,
      <<45, 57, 50, 50, 51, 51, 55, 50, 48, 51, 54, 56, 53, 52, 55, 55, 53, 56, 48, 57>>,
      <<49, 56, 52, 52, 54, 55, 52, 52, 48, 55, 51, 55, 48, 57, 53, 53, 49, 54, 49, 53>>,
      <<49, 56, 52, 52, 54, 55, 52, 52, 48, 55, 51, 55, 48, 57, 53, 53, 49, 54, 49, 54>>,
      <<57, 57, 57, 57, 57, 57, 57, 57, 57, 57, 57, 57, 57, 57, 57, 57, 57, 57, 57, 57, 97>>,
      <<116, 114, 117, 101>>,
      <<45, 50, 53, 54>> }

\* The kinds and widths of the target's fields.
FieldTypes ==
    {<<"string", 0>>, <<"bool", 0>>, <<"complex128", 0>>}
    \cup {<<k, b>> : k \in {"int", "uint"}, b \in {8, 16, 32, 64}}

\* The tags: none, `-`, a name, a name with an option, `-` with an option.
FieldTags == {<<>>, <<MINUS>>, <<LowerA>>, <<LowerB, COMMA, LowerA>>, <<MINUS, COMMA>>}

\* struct { A string `vdf:"a"`; B string `vdf:"A"` }: each of the keys a and
\* A matches one field exactly and the other one case-insensitively.
StructExactAndFold ==
    <<Field(<<UpperA>>, <<LowerA>>, "string", 0, <<>>),
      Field(<<66>>, <<UpperA>>, "string", 0, <<>>)>>

\* struct { A string `vdf:"aA"`; B string `vdf:"Aa"` }: the key aa matches
\* both fields case-insensitively and none exactly.
StructTwoFolds ==
    <<Field(<<UpperA>>, <<LowerA, UpperA>>, "string", 0, <<>>),
      Field(<<66>>, <<UpperA, LowerA>>, "string", 0, <<>>)>>

\* The target structs: one exported field A, of each type and tag; a
\* field b that is not exported; two fields looked up by the same name.
Structs ==
    {<<Field(<<UpperA>>, tag, t[1], t[2], ZeroValue(t[1]))>> :
        tag \in FieldTags, t \in FieldTypes}
    \cup {<<Field(<<LowerB>>, <<LowerA>>, "string", 0, <<>>)>>,
          <<Field(<<UpperA>>, <<MINUS>>, "string", 0, <<>>),
            Field(<<UpperA, UpperA>>, <<LowerA>>, "int", 8, <<Digit0>>)>>,
          StructExactAndFold, StructTwoFolds}

\* The Nodes bound: a Map with the key a or A (or both) over a Scalar, or
\* over an empty Map.
BindKids ==
    {NewNode(NodeTypeScalar, v, <<>>, <<>>, 1, 1) : v \in BindValues}
    \cup {NewNode(NodeTypeMap, <<>>, <<>>, <<>>, 1, 1)}

\* "a" "0" and "A" "1": two keys that differ only in case.
NodeCaseVariants ==
    [ZeroNode EXCEPT !.Children =
        MapPut(MapPut(EmptyMap, <<LowerA>>,
                      NewNode(NodeTypeScalar, <<Digit0>>, <<>>, <<>>, 1, 1)),
               <<UpperA>>, NewNode(NodeTypeScalar, <<49>>, <<>>, <<>>, 1, 1))]

\* "aa" "1"
NodeFoldKey ==
    [ZeroNode EXCEPT !.Children =
        MapPut(EmptyMap, <<LowerA, LowerA>>,
               NewNode(NodeTypeScalar, <<49>>, <<>>, <<>>, 1, 1))]

BindNodes ==
    {[ZeroNode EXCEPT !.Children = [k \in {key} |-> kid]] :
        key \in {<<LowerA>>, <<UpperA>>, <<LowerB>>}, kid \in BindKids}
    \cup {[ZeroNode EXCEPT !.Children = [k \in {<<LowerA>>, <<LowerB>>} |-> kid]] :
            kid \in BindKids}
    \cup {NodeCaseVariants, NodeFoldKey}

\* What Decode may be handed as v.
Targets == {"node", "struct", "nil", "nilStruct", "nilNode", "value", "nonStruct"}

InitBind ==
    /\ DecoderInit
    /\ PoolIdle
    /\ EncoderIdle
    /\ orig = NilNode
    /\ input = <<>>
    /\ pc = "bind"
    /\ bindNode \in BindNodes
    /\ \/ dest = "struct" /\ fields \in Structs
       \/ dest \in Targets \ {"struct"} /\ fields = <<>>
    /\ pending = DOMAIN bindNode.Children
    /\ bindErr = NoErr

BindUnchanged ==
    UNCHANGED <<orig, encoderVars, poolVars, bindNode, dest, input, pos, line, column,
                keyBuilder, valueBuilder, heap, stack, currentKey, headComment,
                parseErr>>

\* Decode, lines 90-93: v holds a *Node. The root is copied through the
\* pointer; reflect's Set on the Elem of a nil pointer panics.
DecodeIntoNode ==
    /\ pc = "bind"
    /\ dest \in {"node", "nilNode"}
    /\ IF dest = "node"
       THEN pc' = "done" /\ target' = bindNode
       ELSE pc' = "panic" /\ UNCHANGED target
    /\ UNCHANGED <<fields, pending, bindErr, decodeErr>>
    /\ BindUnchanged

\* mapNodeToStruct, lines 394-400: the target is checked first, and Decode
\* (line 97) returns what mapNodeToStruct returned.
BindInvalidTarget ==
    /\ pc = "bind"
    /\ dest \in {"nil", "nilStruct", "value", "nonStruct"}
    /\ bindErr' = IF dest = "nonStruct"
                  THEN newValidationError("target must be a pointer to a struct")
                  ELSE newValidationError("target must be a non-nil pointer to a struct")
    /\ decodeErr' = bindErr'
    /\ pc' = "done"
    /\ UNCHANGED <<fields, pending, target>>
    /\ BindUnchanged

\* mapNodeToStruct, lines 417-419: no field matches the key.
BindSkip ==
    /\ pc = "bind"
    /\ dest = "struct"
    /\ \E key \in pending :
          /\ resolve(fields, key) = {}
          /\ pending' = pending \ {key}
    /\ UNCHANGED <<fields, bindErr, pc, decodeErr, target>>
    /\ BindUnchanged

\* The end of one turn of the loop whose setter returned r for field i.
BindResult(key, i, r) ==
    IF r.err # NoErr
    THEN /\ bindErr' = r.err
         /\ decodeErr' = r.err
         /\ pc' = "done"
         /\ UNCHANGED <<fields, pending, target>>
    ELSE /\ fields' = [fields EXCEPT ![i].Val = r.val]
         /\ pending' = pending \ {key}
         /\ UNCHANGED <<bindErr, pc, decodeErr, target>>

\* mapNodeToStruct, lines 436-440: a Map child goes to setMapValue.
BindMap ==
    /\ pc = "bind"
    /\ dest = "struct"
    /\ \E key \in pending : \E i \in resolve(fields, key) :
          /\ bindNode.Children[key].Type = NodeTypeMap
          /\ BindResult(key, i, setMapValue(fields[i]))
    /\ BindUnchanged

\* mapNodeToStruct, lines 442-445: a Scalar child goes to setScalarValue.
BindScalar ==
    /\ pc = "bind"
    /\ dest = "struct"
    /\ \E key \in pending : \E i \in resolve(fields, key) :
          /\ bindNode.Children[key].Type = NodeTypeScalar
          /\ BindResult(key, i, setScalarValue(fields[i], bindNode.Children[key].Value))
    /\ BindUnchanged

\* mapNodeToStruct, line 449: every key has been ranged over.
BindReturn ==
    /\ pc = "bind"
    /\ dest = "struct"
    /\ pending = {}
    /\ pc' = "done"
    /\ UNCHANGED <<fields, pending, bindErr, decodeErr, target>>
    /\ BindUnchanged

NextBind ==
    \/ DecodeIntoNode
    \/ BindInvalidTarget
    \/ BindSkip
    \/ BindMap
    \/ BindScalar
    \/ BindReturn

SpecBind == InitBind /\ [][NextBind]_vars

----------------------------------------------------------------------------
(* Properties.                                                             *)

\* A tree with every Line and Column set to 0.
RECURSIVE StripPositions(_)
StripPositions(t) ==
    [t EXCEPT !.Line = 0, !.Column = 0,
              !.Children = [k \in DOMAIN t.Children |-> StripPositions(t.Children[k])]]

\* No comment anywhere in the tree and no quote or backslash in a key or value.
RECURSIVE IsPlainTree(_)
IsPlainTree(t) ==
    /\ t.Type \in {NodeTypeMap, NodeTypeScalar}
    /\ t.HeadComment = <<>>
    /\ t.LineComment = <<>>
    /\ \A i \in 1..Len(t.Value) : t.Value[i] \notin {QUOTE, BSLASH}
    /\ \A k \in DOMAIN t.Children :
          /\ \A i \in 1..Len(k) : k[i] \notin {QUOTE, BSLASH}
          /\ IsPlainTree(t.Children[k])

\* The input is the encoding of a tree (not raw bytes).
FromTree == orig.Type # NilType

\* C1: for every tree of Map and Scalar nodes without comments and without
\* characters that need escaping, Unmarshal(Marshal(tree)) succeeds and gives
\* a tree equal to the original at every level, Line and Column aside.
C1_RoundTrip ==
    (FromTree /\ IsPlainTree(orig) /\ pc = "done") =>
        /\ decodeErr = NoErr
        /\ StripPositions(target) = StripPositions(orig)

\* Lexicographic order on byte strings, stated without recursion: a is a
\* proper prefix of b, or they first differ at a byte smaller in a.
LexLess(a, b) ==
    \E n \in 0..Len(a) :
        /\ n <= Len(b)
        /\ \A i \in 1..n : a[i] = b[i]
        /\ \/ n = Len(a) /\ n < Len(b)
           \/ n < Len(a) /\ n < Len(b) /\ a[n + 1] < b[n + 1]

StrictlyAscending(keys) ==
    \A i, j \in 1..Len(keys) : i < j => LexLess(keys[i], keys[j])

\* Every Map of the tree is written in ascending key order under seed.
RECURSIVE WritesSorted(_, _)
WritesSorted(t, seed) ==
    /\ StrictlyAscending(mapKeys(t, seed))
    /\ \A k \in DOMAIN t.Children : WritesSorted(t.Children[k], seed)

\* C2: Marshal writes the children of every Map in lexicographically sorted
\* key order, so whatever order the maps are ranged over, the bytes are the
\* same, and they are the bytes Unmarshal was given.
C2_SortedDeterministic ==
    FromTree =>
        /\ \A s1, s2 \in Seeds(orig) : Encode(orig, s1) = Encode(orig, s2)
        /\ \A s \in Seeds(orig) : WritesSorted(orig, s)
        /\ pc # "marshal" => \A s \in Seeds(orig) : input = Encode(orig, s).out

\* C2 witness: a tree with several keys has been marshalled, and some
\* order of ranging over its map is not the sorted one.
C2_Witness ==
    /\ FromTree
    /\ pc = "done"
    /\ Cardinality(DOMAIN orig.Children) >= 3
    /\ \E s \in Seeds(orig) : MapRange(DOMAIN orig.Children, s) # mapKeys(orig, s)

\* A call holds a buffer from Get until Put.
Holding(p) == calls[p].pc \in {"reset", "encode", "write", "put"}

\* C3: under every interleaving of Marshal calls sharing the pool, a call
\* that has returned holds exactly the encoding of its own input (nil and
\* an error for a nil input), and keeps holding it whatever later calls do;
\* a buffer is never held by two calls nor held while lying in the pool,
\* and what a call has written so far is a prefix of its own encoding.
C3_MarshalIsolated ==
    /\ \A p \in Calls :
          calls[p].pc \in {"put", "done"} =>
              IF calls[p].in = NilValue
              THEN calls[p].err = ErrNilValue /\ calls[p].result = NilSlice
              ELSE /\ calls[p].err = NoErr
                   /\ Bytes(calls[p].result) = Encode(calls[p].in, 0).out
    /\ \A p, q \in Calls :
          (p # q /\ Holding(p) /\ Holding(q)) => calls[p].buffer # calls[q].buffer
    /\ \A p \in Calls : Holding(p) => calls[p].buffer \notin pool
    /\ \A p \in Calls :
          calls[p].pc = "write" =>
              Bytes(bufs[calls[p].buffer]) \o calls[p].todo = Encode(calls[p].in, 0).out

\* C3 witness: two calls with different inputs have both returned, the
\* second after reusing and overwriting the buffer of the first.
C3_Witness ==
    \E p, q \in Calls :
        /\ p # q
        /\ calls[p].pc = "done"
        /\ calls[q].pc = "done"
        /\ calls[p].buffer = calls[q].buffer
        /\ calls[p].in # calls[q].in
        /\ calls[p].in # NilValue
        /\ calls[q].in # NilValue
        /\ Bytes(bufs[calls[q].buffer]) = Encode(calls[q].in, 0).out

\* C4: a `}` read by the main loop while only the root is open ends decode
\* with the parse error "unexpected '}' at root level", and in every other
\* case pops exactly one open Map; so the stack always has depth at least 1
\* with the root at its bottom.
C4_CloseBrace ==
    /\ [](Len(stack) >= 1 /\ stack[1] = Root)
    /\ [][(Processing /\ Rune.r = RBRACE) =>
            IF Len(stack) = 1
            THEN /\ pc' = "done"
                 /\ parseErr' = newParseError(line, column + 1,
                                              "unexpected '}' at root level")
                 /\ decodeErr' # NoErr
                 /\ stack' = stack
            ELSE /\ stack' = Front(stack)
                 /\ pc' = "parse"
                 /\ parseErr' = NoErr]_vars

\* C4 witness: a Map was opened and closed again, and a further `}` then
\* failed at the root.
C4_Witness ==
    /\ pc = "done"
    /\ parseErr.Message = "unexpected '}' at root level"
    /\ Len(heap) >= 2
    /\ stack = <<Root>>

\* C5: end of input met by the main loop while blocks are still open is
\* not an error: decode succeeds and hands back the tree built so far.
C5_OpenBlocksAtEOF ==
    [][(pc = "parse" /\ Rune.eof /\ Len(stack) > 1) =>
          /\ pc' = "done"
          /\ parseErr' = NoErr
          /\ decodeErr' = NoErr
          /\ target' = TreeOf(heap, Root)]_vars

\* C5 witness: the input `{` alone has been decoded without error, its
\* block still open.
C5_Witness ==
    /\ pc = "done"
    /\ input = <<LBRACE>>
    /\ decodeErr = NoErr
    /\ Len(stack) = 2
    /\ DOMAIN target.Children = {<<>>}

\* C6: end of input inside a quoted key or value, before its closing
\* quote, makes decode fail with the end-of-input error; nothing is
\* handed back as decoded.
C6_UnterminatedString ==
    [][(pc \in {"readKey", "readValue"} /\ Rune.eof) =>
          /\ pc' = "done"
          /\ parseErr' = ErrEOF
          /\ decodeErr' = WrapError(line, column)
          /\ target' = ZeroNode]_vars

\* C6 witness: decode has failed with EOF on an input whose last quoted
\* string never closes (no comment is involved).
C6_Witness ==
    /\ pc = "done"
    /\ parseErr = ErrEOF
    /\ decodeErr # NoErr
    /\ \A i \in 1..Len(input) : input[i] # SLASH
    /\ Len(input) >= 2

\* The number of consecutive backslashes at the end of s.
TrailingBackslashes(s) ==
    Cardinality({k \in 1..Len(s) : \A i \in (Len(s) - k + 1)..Len(s) : s[i] = BSLASH})

C8_KeysLowercased ==
    /\ currentKey = ToLower(currentKey)
    /\ \A i \in 1..Len(heap) : \A k \in DOMAIN heap[i].Children : k = ToLower(k)

\* C9: the key a written twice at one level with Map values gives one Map
\* under a holding the children of both occurrences.
C9_DuplicateMapsMerged ==
    (pc = "done" /\ input = DocDuplicateMaps) =>
        /\ decodeErr = NoErr
        /\ DOMAIN target.Children = {<<LowerA>>}
        /\ DOMAIN target.Children[<<LowerA>>].Children = {<<LowerA>>, <<LowerB>>}
        /\ target.Children[<<LowerA>>].Children[<<LowerA>>].Value = <<LowerB>>
        /\ target.Children[<<LowerA>>].Children[<<LowerB>>].Value = <<LowerA>>

\* Some encoding unit of s, from offset p on, is invalid.
RECURSIVE HasInvalidUnit(_, _)
HasInvalidUnit(s, p) ==
    IF p > Len(s) THEN FALSE
    ELSE \/ IsInvalidRune(DecodeRune(s, p))
         \/ HasInvalidUnit(s, p + DecodeRune(s, p).size)

\* C10: an invalid encoding unit anywhere in the input aborts decode with
\* an error carrying line and column: no input holding one is decoded
\* successfully.
C10_InvalidUnitAborts ==
    (pc = "done" /\ orig = NilNode /\ HasInvalidUnit(input, 1)) =>
        /\ decodeErr # NoErr
        /\ decodeErr.Line >= 1
        /\ decodeErr.Column >= 1

----------------------------------------------------------------------------
(* Positions and comments (C11 to C15).                                    *)

\* The physical line and column (both 1-indexed) of offset p of text s.
PhysLine(s, p) == 1 + Cardinality({i \in 1..(p - 1) : i <= Len(s) /\ s[i] = LF})
PhysColumn(s, p) ==
    LET nl == {i \in 1..(p - 1) : i <= Len(s) /\ s[i] = LF}
    IN  IF nl = {} THEN p ELSE p - (CHOOSE i \in nl : \A j \in nl : j <= i)

\* s without its leading spaces and tabs.
RECURSIVE SkipBlanks(_)
SkipBlanks(s) == IF s # <<>> /\ s[1] \in {SP, TAB} THEN SkipBlanks(Tail(s)) ELSE s

\* The rest of the physical line that starts at offset p, without its newline.
RestOfLine(s, p) == TrimRightNewlines(ReadString(s, p))

StartsWithComment(s) == Len(s) >= 2 /\ s[1] = SLASH /\ s[2] = SLASH

\* This step reads the closing quote of a value and inserts its Scalar.
ScalarInserted == pc = "readValue" /\ Len(heap') = Len(heap) + 1

\* This step reads a `{` and inserts its Map.
MapInserted == pc = "parse" /\ Len(heap') = Len(heap) + 1

\* C11: when the rest of the physical line after a value's closing quote
\* (spaces and tabs skipped) starts with `//`, the trimmed text after it is
\* the Scalar's LineComment, wherever the value stands, the last line of
\* the input included; otherwise the Scalar has no LineComment and nothing
\* beyond the value's own line is consumed.
C11_LineComment ==
    [][ScalarInserted =>
          LET rest == SkipBlanks(RestOfLine(input, pos + 1))
              scalar == heap'[Len(heap')]
          IN  IF StartsWithComment(rest)
              THEN scalar.LineComment = TrimSpace(Drop(rest, 2))
              ELSE /\ scalar.LineComment = <<>>
                   /\ pos' <= pos + 1 + Len(ReadString(input, pos + 1))]_vars

\* The comment line the main loop is about to read, trimmed.
CommentLine == TrimSpace(RestOfLine(input, pos + 2))

ReadsCommentLine ==
    /\ Processing
    /\ Rune.r = SLASH
    /\ pos + 1 <= Len(input)
    /\ input[pos + 1] = SLASH

\* C12: a `//` line read by the main loop adds its trimmed text to the
\* head-comment buffer, joined by a newline to what is there, an empty
\* line adding nothing; the next node created, Scalar or Map, takes the
\* buffer as its HeadComment and the buffer is cleared; no other step
\* touches the buffer.
C12_HeadComment ==
    /\ [][ReadsCommentLine =>
            headComment' = IF CommentLine = <<>> THEN headComment
                           ELSE IF headComment = <<>> THEN CommentLine
                           ELSE headComment \o <<LF>> \o CommentLine]_vars
    /\ [][(ScalarInserted \/ MapInserted) =>
            /\ heap'[Len(heap')].HeadComment = headComment
            /\ headComment' = <<>>]_vars
    /\ [][headComment' # headComment =>
            ReadsCommentLine \/ ScalarInserted \/ MapInserted]_vars
    /\ [](pc = "done" /\ input = DocHeadComment =>
            /\ decodeErr = NoErr
            /\ target.Children[<<LowerA>>].HeadComment = <<LowerA, LF, LowerB>>
            /\ target.Children[<<LowerA>>].Children[<<LowerA>>].HeadComment = <<>>)

\* C12 witness: the document with three comment lines, one of them empty,
\* has been decoded and its Map carries the two texts joined by a newline.
C12_Witness ==
    /\ pc = "done"
    /\ input = DocHeadComment
    /\ decodeErr = NoErr
    /\ target.Children[<<LowerA>>].HeadComment = <<LowerA, LF, LowerB>>

\* The value read so far holds single-byte characters only, no newline.
PlainValue(v) == \A i \in 1..Len(v) : v[i] < RuneSelf /\ v[i] # LF

\* The offset of the opening quote of the value whose closing quote is at
\* offset p: each quote inside the value stood behind a backslash.
ValueQuote(p, v) == p - (Len(v) + Cardinality({i \in 1..Len(v) : v[i] = QUOTE})) - 1

\* The offset of the opening quote of the key that stands just before the
\* value opened at offset q, only white space between them; 0 when the
\* text before q has another shape.
RECURSIVE SkipSpacesBack(_, _)
SkipSpacesBack(s, p) ==
    IF p >= 1 /\ s[p] \in {SP, TAB, LF, CR} THEN SkipSpacesBack(s, p - 1) ELSE p

KeyQuote(s, q, key) ==
    LET close == SkipSpacesBack(s, q - 1)
        open == close - Len(key) - 1
    IN  IF /\ open >= 1
           /\ s[close] = QUOTE
           /\ s[open] = QUOTE
           /\ SubSeq(s, open + 1, close - 1) = key
        THEN open ELSE 0

InStep == line = PhysLine(input, pos) /\ column = PhysColumn(input, pos)

C14_FirstLineColumn ==
    /\ [][(ScalarInserted /\ PlainValue(valueBuilder) /\ PhysLine(input, pos) = 1) =>
            LET scalar == heap'[Len(heap')]
            IN  /\ scalar.Line = 1
                /\ scalar.Column = ValueQuote(pos, valueBuilder) - 1]_vars
    /\ [](pc = "done" /\ input = DocPair =>
            /\ decodeErr = NoErr
            /\ target.Children[<<LowerA>>].Value = <<LowerB>>
            /\ target.Children[<<LowerA>>].Line = 1
            /\ target.Children[<<LowerA>>].Column = 4)
    /\ [](pc = "done" /\ input = DocEscapedQuotes =>
            /\ decodeErr = NoErr
            /\ target.Children[<<107, 101, 121>>].Line = 1
            /\ target.Children[<<107, 101, 121>>].Column = 6)

\* C14 witness: the escaped-quotes document has been decoded, its value
\* holding two quotes.
C14_Witness ==
    /\ pc = "done"
    /\ input = DocEscapedQuotes
    /\ decodeErr = NoErr
    /\ target.Children[<<107, 101, 121>>].Value = ValueWithQuotes
    /\ target.Children[<<107, 101, 121>>].Column = 6

\* C15: every Map child has the physical line and column of its opening
\* `{`, also after lines that end in a line comment or a head comment; the
\* root is at Line 1, Column 1.
C15_MapAtBrace ==
    /\ [][MapInserted =>
            /\ heap'[Len(heap')].Line = PhysLine(input, pos)
            /\ heap'[Len(heap')].Column = PhysColumn(input, pos)]_vars
    /\ [](heap[Root].Line = 1 /\ heap[Root].Column = 1)

----------------------------------------------------------------------------
(* Encoder failures and empty maps (C18 to C20).                           *)

\* A Map reached from t through Maps holds a nil child.
RECURSIVE HoldsNil(_)
HoldsNil(t) ==
    /\ t.Type = NodeTypeMap
    /\ \E k \in DOMAIN t.Children :
          t.Children[k].Type = NilType \/ HoldsNil(t.Children[k])

\* t without the nil children of its Maps.
RECURSIVE Prune(_)
Prune(t) ==
    IF t.Type # NodeTypeMap THEN t
    ELSE [t EXCEPT !.Children =
            [k \in {x \in DOMAIN t.Children : t.Children[x].Type # NilType} |->
                Prune(t.Children[k])]]

\* t, or a node reached from t through Maps, has a Type that is neither
\* Map nor Scalar.
RECURSIVE HoldsUnknown(_)
HoldsUnknown(t) ==
    \/ t.Type \notin {NodeTypeMap, NodeTypeScalar, NilType, NilInterface}
    \/ /\ t.Type = NodeTypeMap
       /\ \E k \in DOMAIN t.Children : HoldsUnknown(t.Children[k])

\* C18 as stated: a nil child held by a Map makes Encode fail with
\* ErrNilNode wherever it is reached, and Encode(nil) fails with
\* ErrNilValue.
C18_NilChildFails ==
    pc = "done" =>
        /\ encodeIn = NilValue => encodeErr = ErrNilValue
        /\ (encodeIn = NilNode \/ (HoldsNil(encodeIn) /\ ~HoldsUnknown(encodeIn)))
              => encodeErr = ErrNilNode

\* C18 amended: Encode(nil) fails with ErrNilValue and Encode of a nil
\* *Node fails with ErrNilNode, nothing written; a nil child held by a Map
\* is passed over without error, the output being that of the tree without
\* its nil children.
C18_NilChildSkipped ==
    pc = "done" =>
        /\ encodeIn = NilValue => encodeErr = ErrNilValue /\ written = <<>>
        /\ encodeIn = NilNode => encodeErr = ErrNilNode /\ written = <<>>
        /\ HoldsNil(encodeIn) =>
              /\ encodeErr = NoErr
              /\ written = encodeNode(Prune(encodeIn), 0, 0).out

\* C18 witness: a Map holding a nil child next to a Scalar has been
\* encoded, and only the Scalar was written.
C18_Witness ==
    /\ pc = "done"
    /\ encodeIn.Type = NodeTypeMap
    /\ DOMAIN encodeIn.Children = {<<>>, <<LowerA>>}
    /\ encodeIn.Children[<<>>].Type = NilType
    /\ encodeIn.Children[<<LowerA>>].Type = NodeTypeScalar
    /\ encodeErr = NoErr
    /\ written = <<QUOTE, LowerA, QUOTE, SP, QUOTE, LowerB, QUOTE, LF>>

\* C19: a tree that holds a node whose Type is neither Map nor Scalar, as
\* its root or under a Map, makes Encode fail with a validation error.
C19_UnknownTypeFails ==
    (pc = "done" /\ HoldsUnknown(encodeIn)) => encodeErr.Kind = "ValidationError"

\* t without the children that are Maps with zero children.
RECURSIVE DropEmpty(_)
DropEmpty(t) ==
    IF t.Type # NodeTypeMap THEN t
    ELSE [t EXCEPT !.Children =
            [k \in {x \in DOMAIN t.Children :
                       ~(/\ t.Children[x].Type = NodeTypeMap
                         /\ DOMAIN t.Children[x].Children = {})} |->
                DropEmpty(t.Children[k])]]

\* C20 as stated: a Map with zero children adds no byte to the output,
\* as the root or as the child of another Map.
C20_EmptyMapSilent ==
    (pc = "done" /\ encodeIn.Type = NodeTypeMap /\ encodeErr = NoErr) =>
        written = encodeNode(DropEmpty(encodeIn), 0, 0).out

\* t is made of Maps only.
RECURSIVE Hollow(_)
Hollow(t) ==
    /\ t.Type = NodeTypeMap
    /\ \A k \in DOMAIN t.Children : Hollow(t.Children[k])

\* The keys of S in ascending order.
RECURSIVE Ascending(_)
Ascending(S) ==
    IF S = {} THEN <<>>
    ELSE LET least == CHOOSE x \in S : \A y \in S \ {x} : LexLess(x, y)
         IN  <<least>> \o Ascending(S \ {least})

\* What a tree made of Maps only is written as: each child as its quoted
\* key, ` {`, its own children one level deeper, and `}`.
RECURSIVE Braces(_, _, _)
Braces(t, keys, depth) ==
    IF keys = <<>> THEN <<>>
    ELSE LET child == t.Children[Head(keys)]
             margin == [i \in 1..(IndentWidth * depth) |-> SP]
         IN  margin \o <<QUOTE>> \o Head(keys) \o <<QUOTE, SP, LBRACE, LF>>
             \o Braces(child, Ascending(DOMAIN child.Children), depth + 1)
             \o margin \o <<RBRACE, LF>>
             \o Braces(t, Tail(keys), depth)

\* C20 amended: a Map with zero children writes no byte of its own: as the
\* root the output is empty; as the child of another Map it appears as its
\* key followed by ` {`, a newline, the indentation and `}`, with nothing
\* between the braces.
C20_EmptyMapBraces ==
    (pc = "done" /\ Hollow(encodeIn)) =>
        /\ encodeErr = NoErr
        /\ written = Braces(encodeIn, Ascending(DOMAIN encodeIn.Children), 0)
        /\ DOMAIN encodeIn.Children = {} => written = <<>>

\* C20 witness: a Map whose one child is a Map with zero children has
\* been encoded as the key and an empty pair of braces.
C20_Witness ==
    /\ pc = "done"
    /\ encodeIn.Type = NodeTypeMap
    /\ DOMAIN encodeIn.Children = {<<LowerA>>}
    /\ encodeIn.Children[<<LowerA>>].Type = NodeTypeMap
    /\ DOMAIN encodeIn.Children[<<LowerA>>].Children = {}
    /\ written = <<QUOTE, LowerA, QUOTE, SP, LBRACE, LF, RBRACE, LF>>

----------------------------------------------------------------------------
(* Binding: skipped fields and integer widths (C16, C17).                  *)

\* C16: a field tagged `vdf:"-"` is skipped: whatever keys the input
\* holds, the field keeps its zero value, and a struct whose every field is
\* tagged so binds without error.
C16_DashFieldSkipped ==
    /\ \A i \in DOMAIN fields :
          fields[i].Tag = <<MINUS>> => fields[i].Val = ZeroValue(fields[i].Kind)
    /\ (pc = "done" /\ \A i \in DOMAIN fields : fields[i].Tag = <<MINUS>>)
          => bindErr = NoErr

\* The text is an optional sign followed by one digit or more.
WellFormedInt(v) ==
    LET d == IF v # <<>> /\ v[1] \in {PLUS, MINUS} THEN Tail(v) ELSE v
    IN  d # <<>> /\ \A i \in 1..Len(d) : IsDigit(d[i])

Magnitude(v) == StripZeros(IF v[1] \in {PLUS, MINUS} THEN Tail(v) ELSE v)

Negative(v) == v[1] = MINUS /\ Magnitude(v) # <<Digit0>>

\* The integer v lies in the range of a field of the given kind and width.
FitsWidth(v, kind, bits) ==
    IF kind = "int"
    THEN IF Negative(v) THEN ~MagLess(minIntMagnitude(bits), Magnitude(v))
         ELSE ~MagLess(maxInt(bits), Magnitude(v))
    ELSE ~Negative(v) /\ ~MagLess(maxUint(bits), Magnitude(v))

\* The target has the one integer field, looked up as a, and the input is
\* the one pair "a" "<value>".
SoleBinding ==
    /\ Len(fields) = 1
    /\ fields[1].Kind \in {"int", "uint"}
    /\ fields[1].Tag = <<LowerA>>
    /\ DOMAIN bindNode.Children = {<<LowerA>>}
    /\ bindNode.Children[<<LowerA>>].Type = NodeTypeScalar

BoundValue == bindNode.Children[<<LowerA>>].Value

\* The bound value is a well-formed integer outside the field's width.
TooWide ==
    /\ pc = "done"
    /\ SoleBinding
    /\ WellFormedInt(BoundValue)
    /\ ~FitsWidth(BoundValue, fields[1].Kind, fields[1].Bits)

Parses64(v, kind) ==
    IF kind = "int" THEN FitsWidth(v, "int", 64)
    ELSE v[1] \notin {PLUS, MINUS} /\ FitsWidth(v, "uint", 64)

----------------------------------------------------------------------------
(* The empty key.                                                          *)

\* C26: a complete quoted key, the empty key "" included, makes the next
\* quoted string its value: the encoding of a Map whose one child is a
\* Scalar under the key "" decodes to a root with exactly that child.
C26_EmptyKeyTakesValue ==
    (/\ pc = "done"
     /\ FromTree
     /\ DOMAIN orig.Children = {<<>>}
     /\ \A k \in DOMAIN orig.Children : orig.Children[k].Type = NodeTypeScalar) =>
        /\ decodeErr = NoErr
        /\ DOMAIN target.Children = {<<>>}
        /\ \A k \in DOMAIN target.Children :
              /\ target.Children[k].Type = NodeTypeScalar
              /\ target.Children[k].Value = orig.Children[<<>>].Value

----------------------------------------------------------------------------
(* A key left waiting when its block closes.                               *)

\* C27: a key read inside a block is never bound outside it: when `}`
\* closes a block no key is buffered any more, so the next quoted string in
\* the enclosing block is read as a new key.
C27_KeyDiscardedAtClose ==
    [][(pc = "parse" /\ Len(stack') < Len(stack)) => currentKey' = <<>>]_vars

----------------------------------------------------------------------------
(* Positions are 1-indexed.                                                *)

\* Every node of the tree has Line >= 1 and Column >= 1.
RECURSIVE PositionsFromOne(_)
PositionsFromOne(t) ==
    /\ t.Line >= 1
    /\ t.Column >= 1
    /\ \A k \in DOMAIN t.Children : PositionsFromOne(t.Children[k])

\* C28: every node of a successfully decoded tree has Line >= 1 and
\* Column >= 1, whatever the input: values that span lines and multi-byte
\* characters included.
C28_PositionsFromOne ==
    (pc = "done" /\ decodeErr = NoErr) => PositionsFromOne(target)

----------------------------------------------------------------------------
(* What a failed decode leaves behind.                                     *)

\* The root parse hands back next to its error.
PartialTree == TreeOf(heap, Root)

\* C25 as stated: when parse fails, Decode into a *Node leaves the partial
\* tree built up to the failure in the target.
C25_PartialTreeInTarget ==
    (pc = "done" /\ parseErr # NoErr) => target = PartialTree

\* C25: when decoding fails while parsing, parse hands the partial root
\* back with its error, and Decode returns the wrapped error before it
\* touches the target: a *Node target keeps the value it had before the
\* call.
C25_TargetKept ==
    (pc = "done" /\ parseErr # NoErr) =>
        /\ PartialTree.Type = NodeTypeMap
        /\ decodeErr # NoErr
        /\ target = ZeroNode

\* C25 witness: parse failed after it had put a child into the root, and
\* the target is as it was.
C25_Witness ==
    /\ pc = "done"
    /\ parseErr # NoErr
    /\ DOMAIN PartialTree.Children # {}
    /\ target = ZeroNode

----------------------------------------------------------------------------
(* Comments across a round trip.                                           *)

\* Every key of the tree is non-empty and free of quotes and backslashes,
\* and so is every value.
RECURSIVE IsCleanTree(_)
IsCleanTree(t) ==
    /\ t.Type \in {NodeTypeMap, NodeTypeScalar}
    /\ \A i \in 1..Len(t.Value) : t.Value[i] \notin {QUOTE, BSLASH}
    /\ \A k \in DOMAIN t.Children :
          /\ k # <<>>
          /\ \A i \in 1..Len(k) : k[i] \notin {QUOTE, BSLASH}
          /\ IsCleanTree(t.Children[k])

\* C21: comments survive a round trip: for a tree whose children carry a
\* HeadComment and whose Scalar children carry a LineComment,
\* Unmarshal(Marshal(tree)) succeeds and gives the tree back with the same
\* HeadComment and LineComment on every child.
C21_CommentsRoundTrip ==
    (FromTree /\ IsCleanTree(orig) /\ pc = "done") =>
        /\ decodeErr = NoErr
        /\ StripPositions(target) = StripPositions(orig)

----------------------------------------------------------------------------
(* Termination.                                                            *)

\* The decoder is inside parse or one of its readers.
Decoding == pc \in {"parse", "readKey", "readValue"}

\* C30: decoding terminates on every finite input: each step of the parse
\* loop and of the key, value and comment readers reads at least one more
\* byte of the input or ends the decode, nothing is ever un-read, and every
\* run reaches the return of Decode.
C30_Terminates ==
    /\ [][Decoding => (pos' > pos \/ pc' = "done")]_vars
    /\ [][pos' >= pos /\ input' = input]_vars
    /\ <>(pc = "done")

\* C30 witness: a decode that ran over a line comment, a nested block and
\* several lines has returned with the whole input read.
C30_Witness ==
    /\ pc = "done"
    /\ input = DocLineCommentThenMap
    /\ pos = Len(input) + 1
    /\ decodeErr = NoErr

----------------------------------------------------------------------------
(* Matching tree keys to fields.                                           *)

\* The lookup names of the target's field table, and the field of a name.
TableNames == DOMAIN buildFieldMap(fields)
FieldOf(n) == buildFieldMap(fields)[n]

\* The fields whose value the step changes.
Touched == {i \in DOMAIN fields : fields'[i] # fields[i]}

\* C24: a tree key is resolved by exact lookup-name match first and by
\* case-insensitive match only when no name matches exactly; a key that
\* matches no field is passed over without error; a field matched by no key
\* keeps the value it had.
C24_ExactThenFold ==
    [][/\ dest = "struct" => DOMAIN fields' = DOMAIN fields
       /\ pending' = pending => fields' = fields
       /\ \A key \in pending \ pending' :
             /\ key \in TableNames => Touched \subseteq {FieldOf(key)}
             /\ key \notin TableNames =>
                   \A i \in Touched :
                       \E n \in TableNames : FieldOf(n) = i /\ ToLower(n) = ToLower(key)
             /\ (\A n \in TableNames : ToLower(n) # ToLower(key)) =>
                   /\ fields' = fields
                   /\ bindErr' = NoErr
                   /\ pc' = "bind"]_vars

\* C24 witness: the keys a and A were bound to the struct whose lookup
\* names are a and A: each went to the field it names exactly.
C24_Witness ==
    /\ pc = "done"
    /\ bindNode = NodeCaseVariants
    /\ bindErr = NoErr
    /\ Len(fields) = 2
    /\ fields[1].Tag = <<LowerA>> /\ fields[1].Val = <<Digit0>>
    /\ fields[2].Tag = <<UpperA>> /\ fields[2].Val = <<49>>

----------------------------------------------------------------------------
(* One outcome per input.                                                  *)

\* The struct as it was handed to Decode: every field at its zero value.
FieldsBefore ==
    [i \in DOMAIN fields |-> [fields[i] EXCEPT !.Val = ZeroValue(fields[i].Kind)]]

\* The least element of a non-empty set of field indexes.
Least(S) == CHOOSE i \in S : \A j \in S : i <= j

\* The outcome of binding the keys in the order given, a key with several
\* matching fields going to the first of them.
RECURSIVE BindInOrder(_, _)
BindInOrder(fs, keys) ==
    IF keys = <<>> THEN [fields |-> fs, err |-> NoErr]
    ELSE LET key == Head(keys)
             matches == resolve(fs, key)
         IN  IF matches = {} THEN BindInOrder(fs, Tail(keys))
             ELSE LET i == Least(matches)
                      child == bindNode.Children[key]
                      r == IF child.Type = NodeTypeScalar
                           THEN setScalarValue(fs[i], child.Value)
                           ELSE setMapValue(fs[i])
                  IN  IF r.err # NoErr THEN [fields |-> fs, err |-> r.err]
                      ELSE BindInOrder([fs EXCEPT ![i].Val = r.val], Tail(keys))

\* C29: binding is deterministic: whatever order the tree's children and
\* the field table are ranged over, the populated struct and the error are
\* the ones that binding the keys in sorted order gives.
C29_BindingDeterministic ==
    (pc = "done" /\ dest = "struct") =>
        LET once == BindInOrder(FieldsBefore, SortStrings(SetToSeq(DOMAIN bindNode.Children)))
        IN  /\ fields = once.fields
            /\ bindErr = once.err

----------------------------------------------------------------------------
(* Errors and targets of Decode.                                           *)

\* C22: every error Decode returns, a binding failure included, is wrapped
\* with the line and column at which it occurred.
C22_EveryErrorWrapped ==
    (pc = "done" /\ decodeErr # NoErr) =>
        /\ decodeErr.Kind = "wrapError"
        /\ decodeErr.Line >= 1
        /\ decodeErr.Column >= 1

\* C23: Decode of a well-formed input into a nil target (a nil interface, a
\* nil struct pointer or a nil *Node), a struct that is no pointer, or a
\* pointer to something that is no struct returns a ValidationError: it
\* neither panics nor succeeds.
C23_BadTargetRejected ==
    (pc # "bind" /\ dest \in {"nil", "nilStruct", "nilNode", "value", "nonStruct"}) =>
        /\ pc = "done"
        /\ decodeErr.Kind = "ValidationError"

====
